---- MODULE Spec2Model ----
(***************************************************************************)
(* omnimatrix: the Videohub wire codec (crates/videohub), the client       *)
(* engine (src/backend/videohub.rs), the server engine                     *)
(* (src/frontend/videohub.rs) and the DummyRouter (src/matrix/dummy.rs).   *)
(*                                                                         *)
(* Bytes are one-character strings, buffers are sequences of bytes.        *)
(* Option<T> is a sequence of length 0 (None) or 1 (Some).                 *)
(* A VideohubMessage is [kind |-> variant name, v |-> payload sequence].   *)
(***************************************************************************)
EXTENDS Integers, Sequences, FiniteSets, TLC

----------------------------------------------------------------------------
(* Byte literals of the parser and of the writer.                          *)

HeaderLiteral(kind) ==
  CASE kind = "Preamble" -> <<"P","R","O","T","O","C","O","L"," ","P","R","E","A","M","B","L","E",":">>
    [] kind = "DeviceInfo" -> <<"V","I","D","E","O","H","U","B"," ","D","E","V","I","C","E",":">>
    [] kind = "InputLabels" -> <<"I","N","P","U","T"," ","L","A","B","E","L","S",":">>
    [] kind = "OutputLabels" -> <<"O","U","T","P","U","T"," ","L","A","B","E","L","S",":">>
    [] kind = "MonitorOutputLabels" -> <<"M","O","N","I","T","O","R"," ","O","U","T","P","U","T"," ","L","A","B","E","L","S",":">>
    [] kind = "SerialPortLabels" -> <<"S","E","R","I","A","L"," ","P","O","R","T"," ","L","A","B","E","L","S",":">>
    [] kind = "FrameLabels" -> <<"F","R","A","M","E"," ","L","A","B","E","L","S",":">>
    [] kind = "VideoOutputRouting" -> <<"V","I","D","E","O"," ","O","U","T","P","U","T"," ","R","O","U","T","I","N","G",":">>
    [] kind = "VideoMonitoringOutputRouting" -> <<"V","I","D","E","O"," ","M","O","N","I","T","O","R","I","N","G"," ","O","U","T","P","U","T"," ","R","O","U","T","I","N","G",":">>
    [] kind = "SerialPortRouting" -> <<"S","E","R","I","A","L"," ","P","O","R","T"," ","R","O","U","T","I","N","G",":">>
    [] kind = "ProcessingUnitRouting" -> <<"P","R","O","C","E","S","S","I","N","G"," ","U","N","I","T"," ","R","O","U","T","I","N","G",":">>
    [] kind = "FrameBufferRouting" -> <<"F","R","A","M","E"," ","B","U","F","F","E","R"," ","R","O","U","T","I","N","G",":">>
    [] kind = "VideoOutputLocks" -> <<"V","I","D","E","O"," ","O","U","T","P","U","T"," ","L","O","C","K","S",":">>
    [] kind = "MonitoringOutputLocks" -> <<"M","O","N","I","T","O","R","I","N","G"," ","O","U","T","P","U","T"," ","L","O","C","K","S",":">>
    [] kind = "SerialPortLocks" -> <<"S","E","R","I","A","L"," ","P","O","R","T"," ","L","O","C","K","S",":">>
    [] kind = "ProcessingUnitLocks" -> <<"P","R","O","C","E","S","S","I","N","G"," ","U","N","I","T"," ","L","O","C","K","S",":">>
    [] kind = "FrameBufferLocks" -> <<"F","R","A","M","E"," ","B","U","F","F","E","R"," ","L","O","C","K","S",":">>
    [] kind = "VideoInputStatus" -> <<"V","I","D","E","O"," ","I","N","P","U","T"," ","S","T","A","T","U","S",":">>
    [] kind = "VideoOutputStatus" -> <<"V","I","D","E","O"," ","O","U","T","P","U","T"," ","S","T","A","T","U","S",":">>
    [] kind = "SerialPortStatus" -> <<"S","E","R","I","A","L"," ","P","O","R","T"," ","S","T","A","T","U","S",":">>
    [] kind = "AlarmStatus" -> <<"A","L","A","R","M"," ","S","T","A","T","U","S",":">>
    [] kind = "Configuration" -> <<"C","O","N","F","I","G","U","R","A","T","I","O","N",":">>
    [] kind = "ACK" -> <<"A","C","K">>
    [] kind = "NAK" -> <<"N","A","K">>
    [] kind = "Ping" -> <<"P","I","N","G",":">>
    [] kind = "EndPrelude" -> <<"E","N","D"," ","P","R","E","L","U","D","E",":">>
WriterHeader(kind) ==
  CASE kind = "Preamble" -> <<"P","R","O","T","O","C","O","L"," ","P","R","E","A","M","B","L","E",":">>
    [] kind = "DeviceInfo" -> <<"V","I","D","E","O","H","U","B"," ","D","E","V","I","C","E",":">>
    [] kind = "InputLabels" -> <<"I","N","P","U","T"," ","L","A","B","E","L","S",":">>
    [] kind = "OutputLabels" -> <<"O","U","T","P","U","T"," ","L","A","B","E","L","S",":">>
    [] kind = "MonitorOutputLabels" -> <<"M","O","N","I","T","O","R"," ","O","U","T","P","U","T"," ","L","A","B","E","L","S",":">>
    [] kind = "SerialPortLabels" -> <<"S","E","R","I","A","L"," ","P","O","R","T"," ","L","A","B","E","L","S",":">>
    [] kind = "FrameLabels" -> <<"F","R","A","M","E"," ","L","A","B","E","L","S",":">>
    [] kind = "VideoOutputRouting" -> <<"V","I","D","E","O"," ","O","U","T","P","U","T"," ","R","O","U","T","I","N","G",":">>
    [] kind = "VideoMonitoringOutputRouting" -> <<"V","I","D","E","O"," ","M","O","N","I","T","O","R","I","N","G"," ","O","U","T","P","U","T"," ","R","O","U","T","I","N","G",":">>
    [] kind = "SerialPortRouting" -> <<"S","E","R","I","A","L"," ","P","O","R","T"," ","R","O","U","T","I","N","G",":">>
    [] kind = "ProcessingUnitRouting" -> <<"P","R","O","C","E","S","S","I","N","G"," ","U","N","I","T"," ","R","O","U","T","I","N","G",":">>
    [] kind = "FrameBufferRouting" -> <<"F","R","A","M","E"," ","B","U","F","F","E","R"," ","R","O","U","T","I","N","G",":">>
    [] kind = "VideoOutputLocks" -> <<"V","I","D","E","O"," ","O","U","T","P","U","T"," ","L","O","C","K","S",":">>
    [] kind = "MonitoringOutputLocks" -> <<"M","O","N","I","T","O","R","I","N","G"," ","O","U","T","P","U","T"," ","L","O","C","K","S",":">>
    [] kind = "SerialPortLocks" -> <<"S","E","R","I","A","L"," ","P","O","R","T"," ","L","O","C","K","S",":">>
    [] kind = "ProcessingUnitLocks" -> <<"P","R","O","C","E","S","S","I","N","G"," ","U","N","I","T"," ","L","O","C","K","S",":">>
    [] kind = "FrameBufferLocks" -> <<"F","R","A","M","E"," ","B","U","F","F","E","R"," ","L","O","C","K","S",":">>
    [] kind = "VideoInputStatus" -> <<"V","I","D","E","O"," ","I","N","P","U","T"," ","S","T","A","T","U","S",":">>
    [] kind = "VideoOutputStatus" -> <<"V","I","D","E","O"," ","O","U","T","P","U","T"," ","S","T","A","T","U","S",":">>
    [] kind = "SerialPortStatus" -> <<"S","E","R","I","A","L"," ","P","O","R","T"," ","S","T","A","T","U","S",":">>
    [] kind = "AlarmStatus" -> <<"A","L","A","R","M"," ","S","T","A","T","U","S",":">>
    [] kind = "Configuration" -> <<"C","O","N","F","I","G","U","R","A","T","I","O","N",":">>
    [] kind = "ACK" -> <<"A","C","K">>
    [] kind = "NAK" -> <<"N","A","K">>
    [] kind = "Ping" -> <<"P","I","N","G",":">>
    [] kind = "EndPrelude" -> <<"E","N","D"," ","P","R","E","L","U","D","E",":">>
DeviceKeyLiteral(field) ==
  CASE field = "present" -> <<"d","e","v","i","c","e"," ","p","r","e","s","e","n","t">>
    [] field = "model_name" -> <<"m","o","d","e","l"," ","n","a","m","e">>
    [] field = "friendly_name" -> <<"f","r","i","e","n","d","l","y"," ","n","a","m","e">>
    [] field = "unique_id" -> <<"u","n","i","q","u","e"," ","i","d">>
    [] field = "video_inputs" -> <<"v","i","d","e","o"," ","i","n","p","u","t","s">>
    [] field = "video_processing_units" -> <<"v","i","d","e","o"," ","p","r","o","c","e","s","s","i","n","g"," ","u","n","i","t","s">>
    [] field = "video_outputs" -> <<"v","i","d","e","o"," ","o","u","t","p","u","t","s">>
    [] field = "video_monitoring_outputs" -> <<"v","i","d","e","o"," ","m","o","n","i","t","o","r","i","n","g"," ","o","u","t","p","u","t","s">>
    [] field = "serial_ports" -> <<"s","e","r","i","a","l"," ","p","o","r","t","s">>
WriterDeviceLabel(field) ==
  CASE field = "present" -> <<"D","e","v","i","c","e"," ","p","r","e","s","e","n","t">>
    [] field = "model_name" -> <<"M","o","d","e","l"," ","n","a","m","e">>
    [] field = "friendly_name" -> <<"F","r","i","e","n","d","l","y"," ","n","a","m","e">>
    [] field = "unique_id" -> <<"U","n","i","q","u","e"," ","I","D">>
    [] field = "video_inputs" -> <<"V","i","d","e","o"," ","i","n","p","u","t","s">>
    [] field = "video_processing_units" -> <<"V","i","d","e","o"," ","p","r","o","c","e","s","s","i","n","g"," ","u","n","i","t","s">>
    [] field = "video_outputs" -> <<"V","i","d","e","o"," ","o","u","t","p","u","t","s">>
    [] field = "video_monitoring_outputs" -> <<"V","i","d","e","o"," ","m","o","n","i","t","o","r","i","n","g"," ","o","u","t","p","u","t","s">>
    [] field = "serial_ports" -> <<"S","e","r","i","a","l"," ","p","o","r","t","s">>
PresentToken(p) ==
  CASE p = "Yes" -> <<"t","r","u","e">>
    [] p = "No" -> <<"f","a","l","s","e">>
    [] p = "NeedsUpdate" -> <<"n","e","e","d","s","_","u","p","d","a","t","e">>
PortTypeLiteral(p) ==
  CASE p = "None" -> <<"o","n","e">>
    [] p = "BNC" -> <<"b","n","c">>
    [] p = "Optical" -> <<"o","p","t","i","c","a","l">>
    [] p = "Thunderbolt" -> <<"t","h","u","n","d","e","r","b","o","l","t">>
    [] p = "RS422" -> <<"r","s","4","2","2">>
PortTypeDebug(p) ==
  CASE p = "None" -> <<"N","o","n","e">>
    [] p = "BNC" -> <<"B","N","C">>
    [] p = "Optical" -> <<"O","p","t","i","c","a","l">>
    [] p = "Thunderbolt" -> <<"T","h","u","n","d","e","r","b","o","l","t">>
    [] p = "RS422" -> <<"R","S","4","2","2">>
LockToken(s) ==
  CASE s = "Owned" -> <<"O">>
    [] s = "Locked" -> <<"L">>
    [] s = "Unlocked" -> <<"U">>
LowerAlphabet == <<"a","b","c","d","e","f","g","h","i","j","k","l","m","n","o","p","q","r","s","t","u","v","w","x","y","z">>
UpperAlphabet == <<"A","B","C","D","E","F","G","H","I","J","K","L","M","N","O","P","Q","R","S","T","U","V","W","X","Y","Z">>
Digits == <<"0","1","2","3","4","5","6","7","8","9">>
VersionTag == <<"V","e","r","s","i","o","n">>
U32MaxDigits == <<"4","2","9","4","9","6","7","2","9","5">>
OtherOpen == <<"O","t","h","e","r","(","\"">>
OtherClose == <<"\"",")">>


----------------------------------------------------------------------------
(* Slices and character classes.                                           *)

Take(s, n) == SubSeq(s, 1, n)
Drop(s, n) == SubSeq(s, n + 1, Len(s))

MinOf(S) == CHOOSE k \in S : \A j \in S : k <= j
MaxOf(S) == CHOOSE k \in S : \A j \in S : k >= j

PosIn(alphabet, c) ==
  IF \E k \in 1..Len(alphabet) : alphabet[k] = c
  THEN CHOOSE k \in 1..Len(alphabet) : alphabet[k] = c
  ELSE 0

Translate(c, from, to, p) == IF p > 0 THEN to[p] ELSE c

to_ascii_uppercase(s) ==
  [k \in 1..Len(s) |-> Translate(s[k], LowerAlphabet, UpperAlphabet, PosIn(LowerAlphabet, s[k]))]

to_ascii_lowercase(s) ==
  [k \in 1..Len(s) |-> Translate(s[k], UpperAlphabet, LowerAlphabet, PosIn(UpperAlphabet, s[k]))]

IsAsciiWhitespace(c) == c \in {" ", "\t", "\n", "\f", "\r"}
IsMultispace(c) == c \in {" ", "\t", "\r", "\n"}
IsSpace(c) == c \in {" ", "\t"}
IsNewlineByte(c) == c \in {"\r", "\n"}
IsDigit(c) == PosIn(Digits, c) > 0

NonWhitespace(s) == {k \in 1..Len(s) : ~IsAsciiWhitespace(s[k])}

trim_ascii_end(s) ==
  IF NonWhitespace(s) = {} THEN <<>> ELSE Take(s, MaxOf(NonWhitespace(s)))

trim_ascii_start(s) ==
  IF NonWhitespace(s) = {} THEN <<>> ELSE Drop(s, MinOf(NonWhitespace(s)) - 1)

trim_ascii(s) == trim_ascii_end(trim_ascii_start(s))

----------------------------------------------------------------------------
(* nom results: IResult<&[u8], T>.                                         *)

Ok(rest, out) == [st |-> "ok", rest |-> rest, out |-> out]
Incomplete == [st |-> "incomplete", rest |-> <<>>, out |-> <<>>]
Error == [st |-> "error", rest |-> <<>>, out |-> <<>>]

(* x bound to a value once; the ? operator and the sequencing of tuple(..). *)
Let(x, F(_)) == F(x)
Bind(r, F(_)) == IF r.st = "ok" THEN F(r) ELSE r

(* The index of the first byte of i that passes Test, 0 when none does.    *)
FirstIndex(i, Test(_)) ==
  Let({k \in 1..Len(i) : Test(i[k])}, LAMBDA S : IF S = {} THEN 0 ELSE MinOf(S))

(* split_at_position (streaming): Incomplete when no byte ends the run.    *)
SplitAt0(i, p) ==
  IF p = 0 THEN Incomplete ELSE Ok(Drop(i, p - 1), Take(i, p - 1))

(* split_at_position1 (streaming): as above, Error on an empty run.        *)
SplitAt1(i, p) ==
  IF p = 0 THEN Incomplete
  ELSE IF p = 1 THEN Error
  ELSE Ok(Drop(i, p - 1), Take(i, p - 1))

(* alt((tag("\r\n"), tag("\n"))), streaming: a lone "\r" at the end of the *)
(* input and the empty input are Incomplete.                               *)
any_newline(i) ==
  IF Len(i) = 0 THEN Incomplete
  ELSE IF i[1] = "\r"
       THEN IF Len(i) = 1 THEN Incomplete
            ELSE IF i[2] = "\n" THEN Ok(Drop(i, 2), Take(i, 2)) ELSE Error
       ELSE IF i[1] = "\n" THEN Ok(Drop(i, 1), Take(i, 1)) ELSE Error

(* take_while1(c != '\r' && c != '\n'), streaming.                         *)
take_until_newline(i) == SplitAt1(i, FirstIndex(i, IsNewlineByte))

(* character::streaming::multispace0.                                      *)
multispace0(i) == SplitAt0(i, FirstIndex(i, LAMBDA c : ~IsMultispace(c)))

(* character::streaming::space1.                                           *)
space1(i) == SplitAt1(i, FirstIndex(i, LAMBDA c : ~IsSpace(c)))

(* bytes::streaming::take_until(":").                                      *)
take_until_colon(i) == SplitAt0(i, FirstIndex(i, LAMBDA c : c = ":"))

(* bytes::streaming::tag(":").                                             *)
tag_colon(i) ==
  IF Len(i) = 0 THEN Incomplete
  ELSE IF i[1] = ":" THEN Ok(Drop(i, 1), Take(i, 1)) ELSE Error

(* bytes::streaming::tag_no_case(t).                                       *)
tag_no_case(t, i) ==
  Let(IF Len(i) < Len(t) THEN Len(i) ELSE Len(t), LAMBDA n :
    IF to_ascii_lowercase(Take(i, n)) # to_ascii_lowercase(Take(t, n)) THEN Error
    ELSE IF Len(i) < Len(t) THEN Incomplete
    ELSE Ok(Drop(i, Len(t)), Take(i, Len(t))))

(* The scan of take_until_empty_line at position p (1-based).              *)
LfLf(i, p) == p + 1 <= Len(i) /\ i[p] = "\n" /\ i[p + 1] = "\n"
CrLfCrLf(i, p) == p + 3 <= Len(i) /\ SubSeq(i, p, p + 3) = <<"\r", "\n", "\r", "\n">>

EmptyLineAt(i, p) ==
  IF p = 0 THEN Incomplete
  ELSE IF LfLf(i, p) THEN Ok(Drop(i, p + 1), Take(i, p))
  ELSE Ok(Drop(i, p + 3), Take(i, p + 1))

take_until_empty_line(i) ==
  EmptyLineAt(i, Let({p \in 1..Len(i) : LfLf(i, p) \/ CrLfCrLf(i, p)},
                     LAMBDA S : IF S = {} THEN 0 ELSE MinOf(S)))

(* str::parse::<u32>() on a run of digits: None on overflow.               *)
DigitValue(c) == PosIn(Digits, c) - 1

RECURSIVE DigitsValue(_)
DigitsValue(d) ==
  IF Len(d) = 0 THEN 0
  ELSE DigitsValue(Take(d, Len(d) - 1)) * 10 + DigitValue(d[Len(d)])

StripZeros(d) ==
  Let(FirstIndex(d, LAMBDA c : c # "0"), LAMBDA p : IF p = 0 THEN <<>> ELSE Drop(d, p - 1))

DigitsGreater(a, b) ==
  \E k \in 1..Len(a) :
     /\ DigitValue(a[k]) > DigitValue(b[k])
     /\ \A j \in 1..(k - 1) : a[j] = b[j]

OverflowsU32(d) ==
  Let(StripZeros(d), LAMBDA z :
    \/ Len(z) > Len(U32MaxDigits)
    \/ Len(z) = Len(U32MaxDigits) /\ DigitsGreater(z, U32MaxDigits))

ParseDigits(i, n) ==
  IF n = 0 THEN Error
  ELSE IF OverflowsU32(Take(i, n)) THEN Error
  ELSE Ok(Drop(i, n), DigitsValue(StripZeros(Take(i, n))))

(* map_res(character::complete::digit1, str::parse).                       *)
parse_u32(i) ==
  ParseDigits(i, Let(FirstIndex(i, LAMBDA c : ~IsDigit(c)),
                     LAMBDA p : IF p = 0 THEN Len(i) ELSE p - 1))


----------------------------------------------------------------------------
(* Body parsers (crates/videohub/src/parser.rs).                           *)

Msg(kind, v) == [kind |-> kind, v |-> v]

LabelKinds == {"InputLabels", "OutputLabels", "MonitorOutputLabels",
               "SerialPortLabels", "FrameLabels"}
RouteKinds == {"VideoOutputRouting", "VideoMonitoringOutputRouting",
               "SerialPortRouting", "ProcessingUnitRouting", "FrameBufferRouting"}
LockKinds == {"VideoOutputLocks", "MonitoringOutputLocks", "SerialPortLocks",
              "ProcessingUnitLocks", "FrameBufferLocks"}
StatusKinds == {"VideoInputStatus", "VideoOutputStatus", "SerialPortStatus"}
KvKinds == {"AlarmStatus", "Configuration"}
SingleLineKinds == {"ACK", "NAK", "Ping", "EndPrelude"}
KnownKinds == {"Preamble", "DeviceInfo"} \cup LabelKinds \cup RouteKinds
              \cup LockKinds \cup StatusKinds \cup KvKinds \cup SingleLineKinds

(* One "Key: Value" line: (key.trim_ascii(), value.trim_ascii_end()).      *)
parse_kv_line(i) ==
  Bind(take_until_colon(i), LAMBDA k :
  Bind(tag_colon(k.rest), LAMBDA c :
  Bind(space1(c.rest), LAMBDA s :
  Bind(take_until_newline(s.rest), LAMBDA v :
  Bind(any_newline(v.rest), LAMBDA n :
    Ok(n.rest, [key |-> trim_ascii(k.out), value |-> trim_ascii_end(v.out)]))))))

parse_preamble_body(i) ==
  Bind(tag_no_case(VersionTag, i), LAMBDA t :
  Bind(tag_colon(t.rest), LAMBDA c :
  Bind(take_until_newline(c.rest), LAMBDA v :
  Bind(any_newline(v.rest), LAMBDA n :
    Ok(n.rest, Msg("Preamble", trim_ascii(v.out)))))))

DefaultDeviceInfo ==
  [present |-> <<>>, model_name |-> <<>>, friendly_name |-> <<>>,
   unique_id |-> <<>>, video_inputs |-> <<>>, video_processing_units |-> <<>>,
   video_outputs |-> <<>>, video_monitoring_outputs |-> <<>>,
   serial_ports |-> <<>>, unknown_fields |-> <<>>]

CountFields == {"video_inputs", "video_processing_units", "video_outputs",
                "video_monitoring_outputs", "serial_ports"}

(* The arms of the match of parse_device_body on the lowercased key lk:   *)
(* the new DeviceInfo, or Error.                                           *)
PresentField(di, v) ==
  IF \E p \in {"Yes", "No", "NeedsUpdate"} : v = PresentToken(p)
  THEN Ok(<<>>, [di EXCEPT !.present =
                   <<CHOOSE p \in {"Yes", "No", "NeedsUpdate"} : v = PresentToken(p)>>])
  ELSE Error

CountField(di, f, n) ==
  IF n.st = "ok" THEN Ok(<<>>, [di EXCEPT ![f] = <<n.out>>]) ELSE Error

UnknownField(di, k, v) ==
  Ok(<<>>, [di EXCEPT !.unknown_fields =
              <<Append(IF di.unknown_fields = <<>> THEN <<>> ELSE di.unknown_fields[1],
                       [key |-> k, value |-> v])>>])

DeviceField(di, lk, k, v) ==
  IF lk = DeviceKeyLiteral("present") THEN PresentField(di, v)
  ELSE IF lk = DeviceKeyLiteral("model_name")
  THEN Ok(<<>>, [di EXCEPT !.model_name = <<v>>])
  ELSE IF lk = DeviceKeyLiteral("friendly_name")
  THEN Ok(<<>>, [di EXCEPT !.unique_id = <<v>>])
  ELSE IF lk = DeviceKeyLiteral("unique_id")
  THEN Ok(<<>>, [di EXCEPT !.unique_id = <<v>>])
  ELSE IF \E f \in CountFields : lk = DeviceKeyLiteral(f)
  THEN CountField(di, CHOOSE f \in CountFields : lk = DeviceKeyLiteral(f), parse_u32(v))
  ELSE UnknownField(di, k, v)

RECURSIVE DeviceLines(_, _)
DeviceStep(i, di, kv) ==
  IF kv.st # "ok" THEN Ok(i, di)
  ELSE Bind(DeviceField(di, to_ascii_lowercase(kv.out.key), kv.out.key, kv.out.value),
            LAMBDA f : DeviceLines(kv.rest, f.out))

DeviceLines(i, di) == DeviceStep(i, di, parse_kv_line(i))

parse_device_body(i) ==
  Bind(DeviceLines(i, DefaultDeviceInfo), LAMBDA r : Ok(r.rest, Msg("DeviceInfo", <<r.out>>)))

(* tuple((parse_u32, space1, take_until_newline, any_newline)): the line   *)
(* shape shared by the label, lock and status bodies.                      *)
IdRestLine(i) ==
  Bind(parse_u32(i), LAMBDA d :
  Bind(space1(d.rest), LAMBDA s :
  Bind(take_until_newline(s.rest), LAMBDA v :
  Bind(any_newline(v.rest), LAMBDA n :
    Ok(n.rest, [id |-> d.out, text |-> v.out])))))

RECURSIVE LabelLines(_)
LabelStep(l) ==
  IF l.st # "ok" THEN <<>>
  ELSE <<[id |-> l.out.id, name |-> trim_ascii(l.out.text)]>> \o LabelLines(l.rest)

LabelLines(i) == LabelStep(IdRestLine(i))

parse_label_body(i, ctor) == Ok(<<>>, Msg(ctor, LabelLines(i)))

(* tuple((parse_u32, space1, parse_u32, any_newline)): "output input".     *)
RouteLine(i) ==
  Bind(parse_u32(i), LAMBDA t :
  Bind(space1(t.rest), LAMBDA s :
  Bind(parse_u32(s.rest), LAMBDA f :
  Bind(any_newline(f.rest), LAMBDA n :
    Ok(n.rest, [from_input |-> f.out, to_output |-> t.out])))))

RECURSIVE RouteLines(_)
RouteStep(r) ==
  IF r.st # "ok" THEN <<>> ELSE <<r.out>> \o RouteLines(r.rest)

RouteLines(i) == RouteStep(RouteLine(i))

parse_route_body(i, ctor) == Ok(<<>>, Msg(ctor, RouteLines(i)))

LockStates(s) ==
  {x \in {"Owned", "Locked", "Unlocked"} :
     s = LockToken(x) \/ s = to_ascii_lowercase(LockToken(x))}

RECURSIVE LockLines(_, _)
LockState(l, out, S) ==
  IF S = {} THEN Error
  ELSE LockLines(l.rest, Append(out, [id |-> l.out.id, state |-> CHOOSE x \in S : TRUE]))

LockStep(i, out, l) ==
  IF l.st # "ok" THEN Ok(i, out)
  ELSE LockState(l, out, LockStates(trim_ascii_end(l.out.text)))

LockLines(i, out) == LockStep(i, out, IdRestLine(i))

parse_lock_body(i, ctor) ==
  Bind(LockLines(i, <<>>), LAMBDA r : Ok(r.rest, Msg(ctor, r.out)))

TypedPorts == {"None", "BNC", "Optical", "Thunderbolt", "RS422"}
Port(t, s) == [t |-> t, s |-> s]

(* The match on the lowercased port type pt: a typed port, or Other(pt)    *)
(* with the bytes as received.                                             *)
PortType(tp, S) ==
  IF S = {} THEN Port("Other", tp) ELSE Port(CHOOSE x \in S : TRUE, <<>>)

HardwarePortType(tp) ==
  PortType(tp, {x \in TypedPorts : to_ascii_lowercase(tp) = PortTypeLiteral(x)})

RECURSIVE HwLines(_)
HwStep(l) ==
  IF l.st # "ok" THEN <<>>
  ELSE <<[id |-> l.out.id, port_type |-> HardwarePortType(trim_ascii_end(l.out.text))]>>
       \o HwLines(l.rest)

HwLines(i) == HwStep(IdRestLine(i))

parse_hw_body(i, ctor) == Ok(<<>>, Msg(ctor, HwLines(i)))

KvEntry(ctor, k, v) ==
  IF ctor = "AlarmStatus" THEN [name |-> k, status |-> v] ELSE [setting |-> k, value |-> v]

RECURSIVE KvLines(_, _)
KvStep(kv, ctor) ==
  IF kv.st # "ok" THEN <<>>
  ELSE <<KvEntry(ctor, trim_ascii(kv.out.key), trim_ascii(kv.out.value))>>
       \o KvLines(kv.rest, ctor)

KvLines(i, ctor) == KvStep(parse_kv_line(i), ctor)

parse_kv_body(i, ctor) == Ok(<<>>, Msg(ctor, KvLines(i, ctor)))

(* The match of parse_single_block on the uppercased header: the message   *)
(* of the block, or the body parser's failure.                             *)
MatchKind(kind, body) ==
  IF kind = "Preamble" THEN parse_preamble_body(body)
  ELSE IF kind = "DeviceInfo" THEN parse_device_body(body)
  ELSE IF kind \in LabelKinds THEN parse_label_body(body, kind)
  ELSE IF kind \in RouteKinds THEN parse_route_body(body, kind)
  ELSE IF kind \in LockKinds THEN parse_lock_body(body, kind)
  ELSE IF kind \in StatusKinds THEN parse_hw_body(body, kind)
  ELSE IF kind \in KvKinds THEN parse_kv_body(body, kind)
  ELSE IF kind = "ACK" THEN Ok(<<>>, Msg("ACK", <<>>))
  ELSE IF kind = "NAK" THEN Ok(<<>>, Msg("ACK", <<>>))
  ELSE IF kind = "Ping" THEN Ok(<<>>, Msg("Ping", <<>>))
  ELSE Ok(<<>>, Msg("EndPrelude", <<>>))

MatchHeader(screaming_header, trimmed_header, body) ==
  IF \E k \in KnownKinds : screaming_header = HeaderLiteral(k)
  THEN MatchKind(CHOOSE k \in KnownKinds : screaming_header = HeaderLiteral(k), body)
  ELSE Ok(<<>>, Msg("UnknownMessage", <<trimmed_header, body>>))

(* alt((any_newline, take_until_empty_line)): the second parser runs only  *)
(* on an Error of the first; Incomplete is returned at once.               *)
BlockBody(i, a) == IF a.st = "error" THEN take_until_empty_line(i) ELSE a

(* A parser that matches the header as it was received, without folding   *)
(* its case.                                                               *)
parse_single_block_cased(i) ==
  Bind(multispace0(i), LAMBDA w :
  Bind(take_until_newline(w.rest), LAMBDA h :
  Bind(any_newline(h.rest), LAMBDA n :
  Bind(BlockBody(n.rest, any_newline(n.rest)), LAMBDA b :
  Bind(MatchHeader(trim_ascii_end(h.out), trim_ascii_end(h.out), b.out),
       LAMBDA m : Ok(b.rest, m.out))))))

(* Parse one block including its trailing blank line.                      *)
parse_single_block(i) ==
  Bind(multispace0(i), LAMBDA w :
  Bind(take_until_newline(w.rest), LAMBDA h :
  Bind(any_newline(h.rest), LAMBDA n :
  Bind(BlockBody(n.rest, any_newline(n.rest)), LAMBDA b :
  Bind(MatchHeader(to_ascii_uppercase(trim_ascii_end(h.out)), trim_ascii_end(h.out), b.out),
       LAMBDA m : Ok(b.rest, m.out))))))

RECURSIVE AllBlocks(_, _)
BlockStep(r, messages) ==
  IF r.st # "ok" THEN r
  ELSE IF Len(r.rest) = 0 THEN Ok(r.rest, Append(messages, r.out))
  ELSE AllBlocks(r.rest, Append(messages, r.out))

AllBlocks(i, messages) == BlockStep(parse_single_block(i), messages)

parse_all_blocks(input) == AllBlocks(input, <<>>)


----------------------------------------------------------------------------
(* Writer (crates/videohub/src/writer.rs) and codec (codec.rs).            *)

(* Display of a u32.                                                       *)
RECURSIVE Dec(_)
Dec(n) == IF n < 10 THEN <<Digits[n + 1]>> ELSE Dec(n \div 10) \o <<Digits[(n % 10) + 1]>>

(* Debug of a HardwarePortType: the variant name, Other("...") for Other.  *)
PortDebug(p) ==
  IF p.t = "Other" THEN OtherOpen \o p.s \o OtherClose ELSE PortTypeDebug(p.t)

RECURSIVE Concat(_)
Concat(ss) == IF Len(ss) = 0 THEN <<>> ELSE ss[1] \o Concat(Tail(ss))

(* opt_val!: "<label>: <value>\n" when the field is Some.                  *)
OptVal(field, label, isCount) ==
  IF field = <<>> THEN <<>>
  ELSE label \o <<":", " ">> \o (IF isCount THEN Dec(field[1]) ELSE field[1]) \o <<"\n">>

WriteDeviceInfo(d) ==
  OptVal(IF d.present = <<>> THEN <<>> ELSE <<PresentToken(d.present[1])>>,
         WriterDeviceLabel("present"), FALSE)
  \o OptVal(d.model_name, WriterDeviceLabel("model_name"), FALSE)
  \o OptVal(d.friendly_name, WriterDeviceLabel("friendly_name"), FALSE)
  \o OptVal(d.unique_id, WriterDeviceLabel("unique_id"), FALSE)
  \o OptVal(d.video_inputs, WriterDeviceLabel("video_inputs"), TRUE)
  \o OptVal(d.video_processing_units, WriterDeviceLabel("video_processing_units"), TRUE)
  \o OptVal(d.video_outputs, WriterDeviceLabel("video_outputs"), TRUE)
  \o OptVal(d.video_monitoring_outputs, WriterDeviceLabel("video_monitoring_outputs"), TRUE)
  \o OptVal(d.serial_ports, WriterDeviceLabel("serial_ports"), TRUE)
  \o (IF d.unknown_fields = <<>> THEN <<>>
      ELSE Concat([k \in 1..Len(d.unknown_fields[1]) |->
                     d.unknown_fields[1][k].key \o <<":", " ">>
                     \o d.unknown_fields[1][k].value \o <<"\n">>]))

(* The body lines of one message, after its header line.                   *)
WriteLines(m, v) ==
      IF m.kind = "Preamble" THEN VersionTag \o <<":", " ">> \o v \o <<"\n">>
      ELSE IF m.kind = "DeviceInfo" THEN WriteDeviceInfo(v[1])
      ELSE IF m.kind \in LabelKinds
      THEN Concat([k \in 1..Len(v) |-> Dec(v[k].id) \o <<" ">> \o v[k].name \o <<"\n">>])
      ELSE IF m.kind \in RouteKinds
      THEN Concat([k \in 1..Len(v) |->
                     Dec(v[k].to_output) \o <<" ">> \o Dec(v[k].from_input) \o <<"\n">>])
      ELSE IF m.kind \in LockKinds
      THEN Concat([k \in 1..Len(v) |->
                     Dec(v[k].id) \o <<" ">> \o LockToken(v[k].state) \o <<"\n">>])
      ELSE IF m.kind \in {"VideoInputStatus", "VideoOutputStatus"}
      THEN Concat([k \in 1..Len(v) |->
                     Dec(v[k].id) \o <<" ">> \o PortDebug(v[k].port_type) \o <<"\n">>])
      ELSE IF m.kind = "SerialPortStatus"
      THEN Concat([k \in 1..Len(v) |-> Dec(v[k].id) \o <<" ">> \o PortDebug(v[k].port_type)])
      ELSE IF m.kind = "AlarmStatus"
      THEN Concat([k \in 1..Len(v) |-> v[k].name \o <<":", " ">> \o v[k].status \o <<"\n">>])
      ELSE IF m.kind = "Configuration"
      THEN Concat([k \in 1..Len(v) |-> v[k].setting \o <<":", " ">> \o v[k].value \o <<"\n">>])
      ELSE <<>>

WriteBody(m) == WriteLines(m, m.v)

(* A writer that ends an unknown block with its body, without the blank    *)
(* line.                                                                   *)
write_serialized_unended(m) ==
  IF m.kind = "UnknownMessage" THEN m.v[1] \o <<"\n">> \o m.v[2]
  ELSE WriterHeader(m.kind) \o <<"\n">> \o WriteBody(m) \o <<"\n">>

(* The serialized block: header line, body lines, trailing blank line.     *)
write_serialized(m) ==
  IF m.kind = "UnknownMessage" THEN m.v[1] \o <<"\n">> \o m.v[2] \o <<"\n">>
  ELSE WriterHeader(m.kind) \o <<"\n">> \o WriteBody(m) \o <<"\n">>

(* Encoder::encode: the block is appended to dst.                          *)
encode(item, buf) == buf \o write_serialized(item)

(* A decoder that advances the buffer past the bytes of an incomplete      *)
(* block instead of keeping them for the next call.                        *)
DecodedConsuming(buf, r) ==
  IF r.st = "ok"
  THEN [res |-> "some", msg |-> <<r.out>>, src |-> Drop(buf, Len(buf) - Len(r.rest))]
  ELSE IF r.st = "incomplete" THEN [res |-> "none", msg |-> <<>>, src |-> <<>>]
  ELSE [res |-> "err", msg |-> <<>>, src |-> buf]

(* Decoder::decode: Ok(Some(msg)) with the parsed bytes removed from src,  *)
(* Ok(None) with src as it was, or Err.                                    *)
Decoded(buf, r) ==
  IF r.st = "ok"
  THEN [res |-> "some", msg |-> <<r.out>>, src |-> Drop(buf, Len(buf) - Len(r.rest))]
  ELSE IF r.st = "incomplete" THEN [res |-> "none", msg |-> <<>>, src |-> buf]
  ELSE [res |-> "err", msg |-> <<>>, src |-> buf]

decode(buf) == Decoded(buf, parse_single_block(buf))


----------------------------------------------------------------------------
(* The codec between two ends of a byte stream: an encoder appends blocks  *)
(* to the stream, bytes arrive at the decoder's buffer in chunks, and the  *)
(* decoder is run on what has arrived.                                     *)

MaxBlocks == 2

RawBlocks ==
  { <<"P","R","O","T","O","C","O","L"," ","P","R","E","A","M","B","L","E",":","\r","\n","V","e","r","s","i","o","n",":"," ","2",".","4","\r","\n","\r","\n">>,
    <<"V","I","D","E","O","H","U","B"," ","D","E","V","I","C","E",":","\r","\n","D","e","v","i","c","e"," ","p","r","e","s","e","n","t",":"," ","t","r","u","e","\r","\n","\r","\n">>,
    <<"V","I","D","E","O","H","U","B"," ","D","E","V","I","C","E",":","\n","F","r","i","e","n","d","l","y"," ","n","a","m","e",":"," ","X","\n","U","n","i","q","u","e"," ","I","D",":"," ","Y","\n","V","i","d","e","o"," ","i","n","p","u","t","s",":"," ","2","\n","\n">>,
    <<"I","N","P","U","T"," ","L","A","B","E","L","S",":","\r","\n","0"," ","a","\r","\n","1"," "," ","b"," ","\r","\n","\r","\n">>,
    <<"O","U","T","P","U","T"," ","L","A","B","E","L","S",":","\n","5"," ","X","\n","\n">>,
    <<"i","n","p","u","t"," ","l","a","b","e","l","s",":","\n","\n">>,
    <<"V","I","D","E","O"," ","O","U","T","P","U","T"," ","R","O","U","T","I","N","G",":","\n","1"," ","2","\n","0"," ","0","\n","\n">>,
    <<"V","I","D","E","O"," ","O","U","T","P","U","T"," ","L","O","C","K","S",":","\n","0"," ","U","\n","\n">>,
    <<"V","I","D","E","O"," ","I","N","P","U","T"," ","S","T","A","T","U","S",":","\n","0"," ","B","N","C","\n","1"," ","x","\n","\n">>,
    <<"V","I","D","E","O"," ","O","U","T","P","U","T"," ","S","T","A","T","U","S",":","\n","0"," ","N","o","n","e","\n","\n">>,
    <<"S","E","R","I","A","L"," ","P","O","R","T"," ","S","T","A","T","U","S",":","\n","0"," ","R","S","4","2","2","\n","\n">>,
    <<"C","O","N","F","I","G","U","R","A","T","I","O","N",":","\n","T","a","k","e"," ","M","o","d","e",":"," ","f","a","l","s","e","\n","\n">>,
    <<"P","I","N","G",":","\n","\n">>,
    <<"A","C","K","\n","\n">>,
    <<"N","A","K","\n","\n">>,
    <<"n","a","k","\r","\n","\r","\n">>,
    <<"E","N","D"," ","P","R","E","L","U","D","E",":","\n","\n">>,
    <<"F","O","O",":","\n","b","a","r","\n","\n">>,
    <<"F","O","O",":","\n","\n">> }


(* Messages built by a program rather than parsed.                         *)
ConstructedMessages ==
  { Msg("NAK", <<>>),
    Msg("Preamble", <<"2", ".", "7">>),
    Msg("DeviceInfo", <<[present |-> <<"Yes">>, model_name |-> << <<"M">> >>,
                         friendly_name |-> << <<"F">> >>, unique_id |-> << <<"U">> >>,
                         video_inputs |-> <<2>>, video_processing_units |-> <<0>>,
                         video_outputs |-> <<12>>, video_monitoring_outputs |-> <<0>>,
                         serial_ports |-> <<0>>, unknown_fields |-> <<>>]>>),
    Msg("InputLabels", <<[id |-> 1, name |-> <<"X">>]>>),
    Msg("VideoOutputRouting", <<>>),
    Msg("VideoInputStatus", <<[id |-> 0, port_type |-> Port("None", <<>>)]>>),
    Msg("SerialPortStatus", <<[id |-> 0, port_type |-> Port("BNC", <<>>)]>>) }

(* Messages obtained from parsing.                                         *)
ParsedMessages == {parse_single_block(b).out : b \in RawBlocks}

CodecMessages == ParsedMessages \cup ConstructedMessages

(* What may follow the first block on the stream.                          *)
FollowMessages == {Msg("Ping", <<>>), Msg("InputLabels", <<[id |-> 1, name |-> <<"X">>]>>)}

----------------------------------------------------------------------------
(* The client engine (src/backend/videohub.rs): a VideohubRouter handle    *)
(* used by callers, its session task (event_loop), and the peer it talks   *)
(* to over a byte stream in each direction.                                *)

MaxCallers == 2     \* tasks calling into the handle
MaxCalls == 2       \* calls started on the handle in one run
VideoInputs == 2    \* "Video inputs" of the peer's DeviceInfo
VideoOutputs == 3   \* "Video outputs" of the peer's DeviceInfo

Callers == 1..MaxCallers

Some(x) == <<x>>
None == <<>>

(* A merge that pushes every change, also one whose id is in the list.     *)
SetLabelPushing(current, new) == Append(current, new)

(* update_labels: the merge of changes into an Option<Vec<RouterLabel>>.   *)
(* The option is replaced by Some(vec![]) first and stays so on an error.  *)
SetLabel(current, new) ==
  IF \E k \in 1..Len(current) : current[k].id = new.id
  THEN [current EXCEPT ![CHOOSE k \in 1..Len(current) : current[k].id = new.id].name = new.name]
  ELSE Append(current, new)

RECURSIVE MergeLabels(_, _, _)
MergeLabels(current, changes, max_idx) ==
  IF changes = <<>> THEN [ok |-> TRUE, opt |-> Some(current)]
  ELSE IF Head(changes).id >= max_idx THEN [ok |-> FALSE, opt |-> Some(<<>>)]
  ELSE MergeLabels(SetLabel(current, Head(changes)), Tail(changes), max_idx)

update_labels(opt, changes, max_idx) ==
  MergeLabels(IF opt = None THEN <<>> ELSE opt[1], changes, max_idx)

(* update_routes: the same merge for patches, keyed by to_output.          *)
SetPatch(current, new) ==
  IF \E k \in 1..Len(current) : current[k].to_output = new.to_output
  THEN [current EXCEPT ![CHOOSE k \in 1..Len(current) :
                            current[k].to_output = new.to_output].from_input = new.from_input]
  ELSE Append(current, new)

RECURSIVE MergePatches(_, _, _, _)
MergePatches(current, changes, max_input_idx, max_output_idx) ==
  IF changes = <<>> THEN [ok |-> TRUE, opt |-> Some(current)]
  ELSE IF Head(changes).to_output >= max_output_idx \/ Head(changes).from_input >= max_input_idx
  THEN [ok |-> FALSE, opt |-> Some(<<>>)]
  ELSE MergePatches(SetPatch(current, Head(changes)), Tail(changes),
                    max_input_idx, max_output_idx)

update_routes(opt, changes, max_input_idx, max_output_idx) ==
  MergePatches(IF opt = None THEN <<>> ELSE opt[1], changes, max_input_idx, max_output_idx)

(* The calls of the MatrixRouter interface a caller makes on the handle.   *)
GetOps ==
  { [name |-> "get_input_labels", kind |-> "InputLabels", changed |-> <<>>],
    [name |-> "get_output_labels", kind |-> "OutputLabels", changed |-> <<>>],
    [name |-> "get_routes", kind |-> "VideoOutputRouting", changed |-> <<>>] }

UpdateOps ==
  { [name |-> "update_input_labels", kind |-> "InputLabels",
     changed |-> <<[id |-> 1, name |-> <<"X">>]>>],
    [name |-> "update_output_labels", kind |-> "OutputLabels",
     changed |-> <<[id |-> 0, name |-> <<"Y">>]>>],
    [name |-> "update_routes", kind |-> "VideoOutputRouting",
     changed |-> <<[from_input |-> 1, to_output |-> 0]>>] }

PingOp == [name |-> "is_alive", kind |-> "Ping", changed |-> <<>>]

AckOps == UpdateOps \cup {PingOp}
NoOp == [name |-> "none", kind |-> "none", changed |-> <<>>, call |-> 0]

(* The message a call sends: the changes of an update, the empty body of a *)
(* read-through get, Ping for is_alive.                                    *)
RequestOf(o) == Msg(o.kind, o.changed)

(* The CacheEvent a read-through get waits for.                            *)
WantOf(o) == IF o.kind = "VideoOutputRouting" THEN "Routes" ELSE o.kind

(* The cache hit of get_input_labels / get_output_labels / get_routes:     *)
(* Some(list) when the cache holds the list, None when it must be asked.   *)
get_cached(c, kind) ==
  IF kind = "InputLabels" THEN c.input_labels
  ELSE IF kind = "OutputLabels" THEN c.output_labels
  ELSE c.routes

(* The cache write of update_input_labels / update_output_labels /         *)
(* update_routes after an ACK.                                             *)
Merged(c, field, r) == [ok |-> r.ok, cache |-> [c EXCEPT ![field] = r.opt]]

WriteThrough(c, o) ==
  IF o.name = "update_input_labels"
  THEN Merged(c, "input_labels",
              update_labels(c.input_labels, o.changed, c.matrix_info.input_count))
  ELSE IF o.name = "update_output_labels"
  THEN Merged(c, "input_labels",
              update_labels(c.input_labels, o.changed, c.matrix_info.input_count))
  ELSE Merged(c, "routes",
              update_routes(c.routes, o.changed, c.matrix_info.input_count,
                            c.matrix_info.output_count))

(* The cache update of the session task on an inbound frame that is not    *)
(* ACK or NAK, and the CacheEvent it publishes.                            *)
Published(c, field, r, event) == [cache |-> [c EXCEPT ![field] = r.opt], event |-> <<event>>]

InboundDeviceInfo(c, di) ==
  [c EXCEPT !.info.model = IF di.model_name # <<>> THEN di.model_name ELSE @,
            !.info.name = IF di.friendly_name # <<>> THEN di.friendly_name ELSE @,
            !.matrix_info.input_count = IF di.video_inputs # <<>> THEN di.video_inputs[1] ELSE @,
            !.matrix_info.output_count = IF di.video_outputs # <<>> THEN di.video_outputs[1] ELSE @]

Inbound(c, msg) ==
  IF msg.kind = "DeviceInfo" THEN [cache |-> InboundDeviceInfo(c, msg.v[1]), event |-> <<>>]
  ELSE IF msg.kind = "InputLabels"
  THEN Published(c, "input_labels",
                 update_labels(c.input_labels, msg.v, c.matrix_info.input_count),
                 "InputLabels")
  ELSE IF msg.kind = "OutputLabels"
  THEN Published(c, "output_labels",
                 update_labels(c.output_labels, msg.v, c.matrix_info.output_count),
                 "OutputLabels")
  ELSE IF msg.kind = "VideoOutputRouting"
  THEN Published(c, "routes",
                 update_routes(c.routes, msg.v, c.matrix_info.input_count,
                               c.matrix_info.input_count),
                 "Routes")
  ELSE [cache |-> c, event |-> <<>>]

(* The peer: a device of VideoInputs x VideoOutputs that holds its lists,  *)
(* answers an empty-bodied request with the full list, and answers a       *)
(* mutation with ACK (and applies it) or NAK.                              *)
PeerInit ==
  [connected |-> TRUE,
   InputLabels |-> [k \in 1..VideoInputs |-> [id |-> k - 1, name |-> <<"I", Digits[k]>>]],
   OutputLabels |-> [k \in 1..VideoOutputs |-> [id |-> k - 1, name |-> <<"O", Digits[k]>>]],
   VideoOutputRouting |-> [k \in 1..VideoOutputs |-> [from_input |-> 0, to_output |-> k - 1]]]

RECURSIVE PeerLabels(_, _)
PeerLabels(list, changes) ==
  IF changes = <<>> THEN list ELSE PeerLabels(SetLabel(list, Head(changes)), Tail(changes))

RECURSIVE PeerPatches(_, _)
PeerPatches(list, changes) ==
  IF changes = <<>> THEN list ELSE PeerPatches(SetPatch(list, Head(changes)), Tail(changes))

PeerApply(p, m) ==
  IF m.kind = "VideoOutputRouting" THEN [p EXCEPT ![m.kind] = PeerPatches(@, m.v)]
  ELSE [p EXCEPT ![m.kind] = PeerLabels(@, m.v)]

ListKinds == {"InputLabels", "OutputLabels", "VideoOutputRouting"}

(* What the two byte streams of a session can hold: the requests of the    *)
(* calls in one direction, the peer's answers in the other, whole blocks   *)
(* back to back.                                                           *)
WireRequests == {RequestOf(o) : o \in GetOps \cup AckOps}

WireReplies ==
  {Msg("ACK", <<>>), Msg("NAK", <<>>)}
    \cup {Msg(k, PeerInit[k]) : k \in ListKinds}
    \cup {Msg(o.kind, PeerApply(PeerInit, RequestOf(o))[o.kind]) : o \in UpdateOps}

Extended(messages, streams) ==
  streams \cup {encode(m, s) : m \in messages, s \in streams}

RECURSIVE WireStreams(_, _)
WireStreams(messages, n) ==
  IF n = 0 THEN {<<>>} ELSE Extended(messages, WireStreams(messages, n - 1))

(* FramedRead on a stream of the session: Decoder::decode on its buffer,   *)
(* tabulated for the streams above.                                        *)
WireBuffers == WireStreams(WireRequests, MaxCalls) \cup WireStreams(WireReplies, MaxCalls)

Frames == [buf \in WireBuffers |-> decode(buf)] @@ <<>>

next_frame(buf) == IF buf \in DOMAIN Frames THEN Frames[buf] ELSE decode(buf)


(* Updates that name an id or an output twice.                             *)
RepeatingOps ==
  { [name |-> "update_input_labels", kind |-> "InputLabels",
     changed |-> <<[id |-> 1, name |-> <<"X">>], [id |-> 1, name |-> <<"W">>]>>],
    [name |-> "update_output_labels", kind |-> "OutputLabels",
     changed |-> <<[id |-> 0, name |-> <<"Y">>], [id |-> 0, name |-> <<"V">>]>>],
    [name |-> "update_routes", kind |-> "VideoOutputRouting",
     changed |-> <<[from_input |-> 1, to_output |-> 0], [from_input |-> 0, to_output |-> 0]>>] }

(* Blocks of the peer that name an id or an output twice, and one that     *)
(* names a cached id again.                                                *)
RepeatingBlocks ==
  { Msg("InputLabels", <<[id |-> 0, name |-> <<"A">>], [id |-> 1, name |-> <<"B">>],
                         [id |-> 0, name |-> <<"C">>]>>),
    Msg("InputLabels", <<[id |-> 1, name |-> <<"D">>]>>),
    Msg("OutputLabels", <<[id |-> 2, name |-> <<"Q">>], [id |-> 2, name |-> <<"R">>]>>),
    Msg("VideoOutputRouting", <<[from_input |-> 1, to_output |-> 1],
                                [from_input |-> 0, to_output |-> 1]>>) }

----------------------------------------------------------------------------
(* The server engine (src/frontend/videohub.rs) in front of a DummyRouter  *)
(* (src/matrix/dummy.rs) with one matrix of VideoInputs x VideoOutputs.    *)

MaxConns == 2       \* connections accepted in one run
MaxRequests == 2    \* blocks the clients write in one run
FrontendIndex == 0  \* VideohubFrontend::new(router, 0)
MatrixCount == 1    \* DummyRouter::with_config(1, .., ..)

Conns == 1..MaxConns

(* DummyRouter::with_config: the state after construction.                 *)
DummyInit ==
  [info |-> [model |-> Some(<<"D", "u", "m", "m", "y", "R", "o", "u", "t", "e", "r", " ">>
                            \o Dec(VideoInputs) \o <<"x">> \o Dec(VideoOutputs)),
             name |-> None],
   matrix_info |-> [input_count |-> VideoInputs, output_count |-> VideoOutputs],
   input_labels |-> [k \in 1..VideoInputs |->
                       [id |-> k - 1, name |-> <<"I", "n", "p", "u", "t", " ">> \o Dec(k)]],
   output_labels |-> [k \in 1..VideoOutputs |->
                        [id |-> k - 1, name |-> <<"O", "u", "t", "p", "u", "t", " ">> \o Dec(k)]],
   routes |-> [k \in 1..VideoOutputs |-> [from_input |-> 0, to_output |-> k - 1]]]

(* A validate_index that lets the index after the last matrix pass.        *)
validate_index_inclusive(index) == index <= MatrixCount

(* DummyRouter::validate_index.                                            *)
validate_index(index) == index < MatrixCount

(* The loop of DummyRouter::update_input_labels / update_output_labels:    *)
(* each change is written in place until one is out of range.              *)
RECURSIVE DummyLabels(_, _, _, _)
DummyLabels(list, changed, count, changes_happened) ==
  IF changed = <<>> THEN [ok |-> TRUE, list |-> list, changes_happened |-> changes_happened]
  ELSE IF Head(changed).id >= count
  THEN [ok |-> FALSE, list |-> list, changes_happened |-> changes_happened]
  ELSE DummyLabels([list EXCEPT ![Head(changed).id + 1].name = Head(changed).name],
                   Tail(changed), count, TRUE)

(* The loop of DummyRouter::update_routes.                                 *)
RECURSIVE DummyPatches(_, _, _, _, _)
DummyPatches(list, changes, inputs, outputs, changes_happened) ==
  IF changes = <<>> THEN [ok |-> TRUE, list |-> list, changes_happened |-> changes_happened]
  ELSE IF Head(changes).from_input >= inputs \/ Head(changes).to_output >= outputs
  THEN [ok |-> FALSE, list |-> list, changes_happened |-> changes_happened]
  ELSE DummyPatches([list EXCEPT ![Head(changes).to_output + 1].from_input =
                                    Head(changes).from_input],
                    Tail(changes), inputs, outputs, TRUE)

(* The outcome of an update: the router's state after it, the RouterEvent  *)
(* broadcast (none after an error or without a change), Ok or Err.         *)
UpdatedAnnouncingOld(st, field, event, index, r) ==
  [ok |-> r.ok,
   state |-> [st EXCEPT ![field] = r.list],
   event |-> IF r.ok /\ r.changes_happened
             THEN <<[kind |-> event, index |-> index, list |-> st[field]]>> ELSE <<>>]

Updated(st, field, event, index, r) ==
  [ok |-> r.ok,
   state |-> [st EXCEPT ![field] = r.list],
   event |-> IF r.ok /\ r.changes_happened
             THEN <<[kind |-> event, index |-> index, list |-> r.list]>> ELSE <<>>]

Refused(st) == [ok |-> FALSE, state |-> st, event |-> <<>>]

(* An update_input_labels that pushes the changed labels onto the list.    *)
dummy_update_input_labels_pushing(st, index, changed) ==
  IF ~validate_index(index) THEN Refused(st)
  ELSE Updated(st, "input_labels", "InputLabelUpdate", index,
               [ok |-> TRUE, list |-> st.input_labels \o changed,
                changes_happened |-> changed # <<>>])

dummy_update_input_labels(st, index, changed) ==
  IF ~validate_index(index) THEN Refused(st)
  ELSE Updated(st, "input_labels", "InputLabelUpdate", index,
               DummyLabels(st.input_labels, changed, st.matrix_info.input_count, FALSE))

dummy_update_output_labels(st, index, changed) ==
  IF ~validate_index(index) THEN Refused(st)
  ELSE Updated(st, "output_labels", "OutputLabelUpdate", index,
               DummyLabels(st.output_labels, changed, st.matrix_info.output_count, FALSE))

(* An update_routes that changes the routes and tells no subscriber.       *)
dummy_update_routes_silent(st, index, changes) ==
  IF ~validate_index(index) THEN Refused(st)
  ELSE [Updated(st, "routes", "RouteUpdate", index,
                DummyPatches(st.routes, changes, st.matrix_info.input_count,
                             st.matrix_info.output_count, FALSE)) EXCEPT !.event = <<>>]

dummy_update_routes(st, index, changes) ==
  IF ~validate_index(index) THEN Refused(st)
  ELSE Updated(st, "routes", "RouteUpdate", index,
               DummyPatches(st.routes, changes, st.matrix_info.input_count,
                            st.matrix_info.output_count, FALSE))

(* DummyRouter::get_matrix_info / get_input_labels / get_output_labels /   *)
(* get_routes: the field of the matrix, or an error for a wrong index.     *)
dummy_get(st, index, field) ==
  IF ~validate_index(index) THEN [ok |-> FALSE, value |-> <<>>]
  ELSE [ok |-> TRUE, value |-> st[field]]

(* sort_by (a stable sort) on the id of a label and on the to_output of a  *)
(* patch: the first entry of least key, then the rest sorted.              *)
Without(list, k) == SubSeq(list, 1, k - 1) \o SubSeq(list, k + 1, Len(list))

FirstLeastId(list) ==
  CHOOSE k \in 1..Len(list) :
    \A j \in 1..Len(list) : list[k].id < list[j].id \/ (list[k].id = list[j].id /\ k <= j)

FirstLeastOutput(list) ==
  CHOOSE k \in 1..Len(list) :
    \A j \in 1..Len(list) : \/ list[k].to_output < list[j].to_output
                            \/ (list[k].to_output = list[j].to_output /\ k <= j)

RECURSIVE sort_by_id(_)
sort_by_id(list) ==
  IF list = <<>> THEN <<>>
  ELSE <<list[FirstLeastId(list)]>> \o sort_by_id(Without(list, FirstLeastId(list)))

RECURSIVE sort_by_to_output(_)
sort_by_to_output(list) ==
  IF list = <<>> THEN <<>>
  ELSE <<list[FirstLeastOutput(list)]>>
       \o sort_by_to_output(Without(list, FirstLeastOutput(list)))

(* gen_inputlabels, gen_outputlabels, gen_routing.                         *)
gen_inputlabels(st) == Msg("InputLabels", sort_by_id(st.input_labels))
(* A gen_outputlabels that reads the labels of the inputs.                 *)
gen_outputlabels_of_inputs(st) == Msg("OutputLabels", sort_by_id(st.input_labels))

gen_outputlabels(st) == Msg("OutputLabels", sort_by_id(st.output_labels))
gen_routing(st) == Msg("VideoOutputRouting", sort_by_to_output(st.routes))

(* create_initial_dump: the item the stream yields at position step, for   *)
(* the answer alive of is_alive; None when the stream has ended.           *)
DumpDeviceInfo(st, alive) ==
  [DefaultDeviceInfo EXCEPT
     !.present = Some(IF alive THEN "Yes" ELSE "No"),
     !.model_name = IF alive THEN st.info.model ELSE None,
     !.friendly_name = IF alive THEN st.info.name ELSE None,
     !.video_inputs = IF alive THEN Some(st.matrix_info.input_count) ELSE None,
     !.video_outputs = IF alive THEN Some(st.matrix_info.output_count) ELSE None]

(* A dump that sends the routing table ahead of the labels.                *)
create_initial_dump_routing_first(st, alive, step) ==
  IF step = 0 THEN Some(Msg("Preamble", <<"2", ".", "7">>))
  ELSE IF step = 1 THEN Some(Msg("DeviceInfo", <<DumpDeviceInfo(st, alive)>>))
  ELSE IF alive /\ step = 2 THEN Some(gen_routing(st))
  ELSE IF alive /\ step = 3 THEN Some(gen_inputlabels(st))
  ELSE IF alive /\ step = 4 THEN Some(gen_outputlabels(st))
  ELSE IF (alive /\ step = 5) \/ (~alive /\ step = 2) THEN Some(Msg("EndPrelude", <<>>))
  ELSE None

create_initial_dump(st, alive, step) ==
  IF step = 0 THEN Some(Msg("Preamble", <<"2", ".", "7">>))
  ELSE IF step = 1 THEN Some(Msg("DeviceInfo", <<DumpDeviceInfo(st, alive)>>))
  ELSE IF alive /\ step = 2 THEN Some(gen_inputlabels(st))
  ELSE IF alive /\ step = 3 THEN Some(gen_outputlabels(st))
  ELSE IF alive /\ step = 4 THEN Some(gen_routing(st))
  ELSE IF (alive /\ step = 5) \/ (~alive /\ step = 2) THEN Some(Msg("EndPrelude", <<>>))
  ELSE None

(* handle_message: the reply (None when the router call failed and the     *)
(* error is returned with ?), the router afterwards, the event broadcast.  *)
RepliedNothing(st, reply) == [ok |-> TRUE, reply |-> None, state |-> st, event |-> <<>>]

Replied(st, reply) == [ok |-> TRUE, reply |-> Some(reply), state |-> st, event |-> <<>>]

Acked(u) ==
  [ok |-> u.ok, reply |-> IF u.ok THEN Some(Msg("ACK", <<>>)) ELSE None,
   state |-> u.state, event |-> u.event]

handle_message(st, msg) ==
  IF msg.kind = "Ping" THEN Replied(st, Msg("ACK", <<>>))
  ELSE IF msg.kind = "InputLabels"
  THEN IF msg.v = <<>> THEN Replied(st, gen_inputlabels(st))
       ELSE Acked(dummy_update_input_labels(st, FrontendIndex, msg.v))
  ELSE IF msg.kind = "OutputLabels"
  THEN IF msg.v = <<>> THEN Replied(st, gen_outputlabels(st))
       ELSE Acked(dummy_update_output_labels(st, FrontendIndex, msg.v))
  ELSE IF msg.kind = "VideoOutputRouting"
  THEN IF msg.v = <<>> THEN Replied(st, gen_routing(st))
       ELSE Acked(dummy_update_routes(st, FrontendIndex, msg.v))
  ELSE Replied(st, Msg("NAK", <<>>))

(* A handle_event that forwards the route updates of every matrix.        *)
handle_event_of_any_matrix(ev) ==
  IF ev.kind = "RouteUpdate"
  THEN Some(Msg("VideoOutputRouting", sort_by_to_output(ev.list)))
  ELSE None

(* handle_event: the message forwarded for a RouterEvent, if any.          *)
handle_event(ev) ==
  IF ev.kind = "RouteUpdate" /\ ev.index = FrontendIndex
  THEN Some(Msg("VideoOutputRouting", sort_by_to_output(ev.list)))
  ELSE None

(* The blocks a client writes to the server.                               *)
Requests ==
  { Msg("Ping", <<>>),
    Msg("EndPrelude", <<>>),
    Msg("InputLabels", <<>>),
    Msg("InputLabels", <<[id |-> 1, name |-> <<"X">>]>>),
    Msg("InputLabels", <<[id |-> 0, name |-> <<"W">>], [id |-> 5, name |-> <<"Z">>]>>),
    Msg("OutputLabels", <<[id |-> 2, name |-> <<"Y">>]>>),
    Msg("VideoOutputRouting", <<[from_input |-> 1, to_output |-> 0]>>),
    Msg("VideoOutputRouting", <<[from_input |-> 2, to_output |-> 0]>>) }

(* Blocks of every kind a client may write: requests for each list,       *)
(* changes in range, and messages that are neither labels nor routing.     *)
ListRequests ==
  { Msg("InputLabels", <<>>),
    Msg("OutputLabels", <<>>),
    Msg("VideoOutputRouting", <<>>),
    Msg("InputLabels", <<[id |-> 1, name |-> <<"X">>]>>),
    Msg("OutputLabels", <<[id |-> 2, name |-> <<"Y">>]>>),
    Msg("VideoOutputRouting", <<[from_input |-> 1, to_output |-> 0]>>),
    Msg("VideoOutputRouting", <<[from_input |-> 1, to_output |-> 2],
                                [from_input |-> 1, to_output |-> 1]>>) }

OtherRequests ==
  { Msg("Ping", <<>>),
    Msg("EndPrelude", <<>>),
    Msg("ACK", <<>>),
    Msg("NAK", <<>>),
    Msg("Preamble", <<"2", ".", "7">>),
    Msg("DeviceInfo", <<DefaultDeviceInfo>>),
    Msg("VideoOutputLocks", <<[id |-> 0, state |-> "Unlocked"]>>),
    Msg("VideoInputStatus", <<[id |-> 0, port_type |-> Port("BNC", <<>>)]>>),
    parse_single_block(<<"F", "O", "O", ":", "\n", "\n">>).out }

(* The events DummyRouter::push_event is called with: every variant of     *)
(* RouterEvent, a route update of another matrix, and a route update of    *)
(* this matrix listed from the last output to the first.                   *)
MaxPushed == 2      \* events on the router's channel before a push

RouterEventOf(kind, index, list) == [kind |-> kind, index |-> index, list |-> list]

PushedEvents ==
  { RouterEventOf("Connected", 0, <<>>),
    RouterEventOf("Disconnected", 0, <<>>),
    RouterEventOf("InfoUpdate", 0, <<>>),
    RouterEventOf("InputLabelUpdate", FrontendIndex, DummyInit.input_labels),
    RouterEventOf("RouteUpdate", FrontendIndex + 1, DummyInit.routes),
    RouterEventOf("RouteUpdate", FrontendIndex,
                  <<[from_input |-> 1, to_output |-> 2], [from_input |-> 0, to_output |-> 0]>>) }

(* What two clients of the same server write: route changes of two         *)
(* distinct outputs, and a Ping.                                           *)
ClientsRequests ==
  { Msg("VideoOutputRouting", <<[from_input |-> 1, to_output |-> 0]>>),
    Msg("VideoOutputRouting", <<[from_input |-> 1, to_output |-> 2]>>),
    Msg("Ping", <<>>) }

----------------------------------------------------------------------------
(* The state of the three machines and their initial states.               *)

VARIABLES
  dst,          \* the byte stream: encoded, not yet arrived at the decoder
  src,          \* the decoder's buffer
  blocks,       \* the blocks written so far: [bytes, msg (Some for an encoded message)]
  decoded,      \* the messages the decoder has returned
  last_decode   \* the last call of decode: its buffer before and after, its result

codecVars == <<dst, src, blocks, decoded, last_decode>>

CodecInit ==
  /\ dst = <<>>
  /\ src = <<>>
  /\ blocks = <<>>
  /\ decoded = <<>>
  /\ last_decode = [called |-> FALSE, index |-> 0, partial |-> FALSE, before |-> <<>>,
                    res |-> "none", msg |-> <<>>, after |-> <<>>]

VARIABLES
  cache,             \* Cache: info, matrix_info, input_labels, output_labels, routes
  cmd_queue,         \* cmd_tx/cmd_rx: the commands not yet taken by the session task
  pending_commands,  \* the reply slots waiting for ACK/NAK, oldest first
  slot,              \* per caller, its oneshot reply slot
  events,            \* cache_tx: every CacheEvent published so far
  session,           \* the session task: "running" or "stopped"
  net_out,           \* bytes written by the session task, not yet read by the peer
  net_in,            \* bytes written by the peer, not yet read by the session task
  peer,              \* the peer's lists and whether it is connected
  pc,                \* per caller, where it is in its call
  op,                \* per caller, the call it is in (or was last in)
  rx,                \* per caller, the events its subscription has passed
  last_ev,           \* per caller, the last event its subscription received
  result,            \* per caller, what its last call returned
  calls,             \* calls started so far
  issued,            \* the Ack commands (caller, call) in the order they were sent
  answers,           \* the peer's ACK/NAK answers, in the order it wrote them
  resolved,          \* the reply slots resolved, in order: the caller and the value
  stray              \* a stray ACK/NAK: the cache when the peer wrote it, frames dropped

clientVars == <<cache, cmd_queue, pending_commands, slot, events, session, net_out, net_in,
                peer, pc, op, rx, last_ev, result, calls, issued, answers, resolved, stray>>

(* The state after connect(): Preamble and DeviceInfo are consumed, the    *)
(* matrix dimensions are cached, no list is, and the session task runs.    *)
ClientInit ==
  /\ cache = [info |-> [model |-> None, name |-> None],
              matrix_info |-> [input_count |-> VideoInputs, output_count |-> VideoOutputs],
              input_labels |-> None, output_labels |-> None, routes |-> None]
  /\ cmd_queue = <<>>
  /\ pending_commands = <<>>
  /\ slot = [c \in Callers |-> "none"]
  /\ events = <<>>
  /\ session = "running"
  /\ net_out = <<>>
  /\ net_in = <<>>
  /\ peer = PeerInit
  /\ pc = [c \in Callers |-> "idle"]
  /\ op = [c \in Callers |-> NoOp]
  /\ rx = [c \in Callers |-> 0]
  /\ last_ev = [c \in Callers |-> "none"]
  /\ result = [c \in Callers |-> [status |-> "none", value |-> <<>>]]
  /\ calls = 0
  /\ issued = <<>>
  /\ answers = <<>>
  /\ resolved = <<>>
  /\ stray = [written |-> FALSE, cache |-> None, dropped |-> 0]

VARIABLES
  router,      \* the DummyRouter's State
  router_tx,   \* every RouterEvent the router has broadcast
  conn,        \* per connection: phase, dump position, is_alive's answer, messages
               \* sent, bytes received and not yet read, events passed, requests handled
  requests     \* blocks written by clients so far

serverVars == <<router, router_tx, conn, requests>>

ServerInit ==
  /\ router = DummyInit
  /\ router_tx = <<>>
  /\ conn = [k \in Conns |-> [phase |-> "new", step |-> 0, alive |-> None, sent |-> <<>>,
                              inbox |-> <<>>, rx |-> 0, handled |-> <<>>]]
  /\ requests = 0

VARIABLES
  handle,      \* "held" while the VideohubRouter value (and its cmd_tx) lives, "dropped" after
  stream_rx,   \* event_stream: None before the call, Some(n) after n events were passed
  stream_out,  \* event_stream: the RouterEvents it has yielded
  notified     \* the patches the router behind the peer has changed on its own

handleVars == <<handle, stream_rx, stream_out, notified>>

HandleInit ==
  /\ handle = "held"
  /\ stream_rx = None
  /\ stream_out = <<>>
  /\ notified = <<>>

VARIABLES
  hello,       \* connect(): bytes the peer has written and connect has not yet read
  hello_open,  \* connect(): FALSE once the peer has closed the stream
  hello_count, \* blocks the peer has written during connect
  connect      \* connect(): its locals, the cache it fills, its outcome, the frames it read

connectVars == <<hello, hello_open, hello_count, connect>>

(* The start of connect(): the socket is open, Cache::default(), nothing   *)
(* seen, no task spawned.                                                  *)
ConnectInit ==
  /\ hello = <<>>
  /\ hello_open = TRUE
  /\ hello_count = 0
  /\ connect = [state |-> "reading", seen_pre |-> FALSE, seen_di |-> FALSE,
                matrix_info |-> [input_count |-> 0, output_count |-> 0],
                spawned |-> FALSE, frames |-> <<>>]

VARIABLES
  last_call    \* the call made last on the DummyRouter itself: its arguments, its
               \* result, the router and its channel before it; n counts the calls

routerVars == <<last_call>>

NoCall == [n |-> 0, name |-> "none", index |-> 0, changed |-> <<>>, ok |-> TRUE,
           value |-> <<>>, router |-> <<>>, router_tx |-> <<>>]

RouterInit == last_call = NoCall

VARIABLES
  wire,        \* the parser's input: the blocks written, each as its lines, the lines
               \* ended by CRLF, and whether its letters were lowered
  parsed       \* the parser function run on the input and what it returned

parserVars == <<wire, parsed>>

NotParsed == [fn |-> "none", input |-> <<>>, result |-> <<>>]

ParserInit == wire = <<>> /\ parsed = NotParsed

vars == <<codecVars, clientVars, serverVars, handleVars, connectVars, routerVars, parserVars>>

Init ==
  /\ CodecInit /\ ClientInit /\ ServerInit /\ HandleInit /\ ConnectInit /\ RouterInit
  /\ ParserInit

----------------------------------------------------------------------------
(* The codec harness.                                                      *)

Writable == Len(blocks) < MaxBlocks /\ src = <<>> /\ ~last_decode.called

(* Encoder::encode on a message.                                           *)
Encode(m) ==
  /\ Writable
  /\ Len(blocks) = 0 \/ m \in FollowMessages
  /\ dst' = encode(m, dst)
  /\ blocks' = Append(blocks, [bytes |-> write_serialized(m), msg |-> <<m>>])
  /\ UNCHANGED <<src, decoded, last_decode>>
  /\ UNCHANGED <<clientVars, serverVars, handleVars, connectVars, routerVars, parserVars>>

(* The peer writes a block of its own making.                              *)
WriteRaw(b) ==
  /\ Writable
  /\ Len(blocks) = 0
  /\ dst' = dst \o b
  /\ blocks' = Append(blocks, [bytes |-> b, msg |-> <<>>])
  /\ UNCHANGED <<src, decoded, last_decode>>
  /\ UNCHANGED <<clientVars, serverVars, handleVars, connectVars, routerVars, parserVars>>

(* One call of Decoder::decode and its record.                             *)
DecodeCall(buf, r) ==
  /\ src' = r.src
  /\ decoded' = decoded \o r.msg
  /\ last_decode' = [called |-> TRUE, index |-> Len(decoded),
                     partial |-> IF r.res = "none"
                                 THEN last_decode.partial \/ buf # <<>>
                                 ELSE last_decode.res = "none" /\ last_decode.partial,
                     before |-> buf, res |-> r.res, msg |-> r.msg, after |-> r.src]

(* FramedRead: the transport reads k bytes into the buffer and the decoder *)
(* is run on it.                                                           *)
Arrive(k) ==
  /\ last_decode.res # "err"
  /\ k \in 1..Len(dst)
  /\ dst' = Drop(dst, k)
  /\ DecodeCall(src \o Take(dst, k), decode(src \o Take(dst, k)))
  /\ UNCHANGED blocks
  /\ UNCHANGED <<clientVars, serverVars, handleVars, connectVars, routerVars, parserVars>>

(* FramedRead: after a frame, the decoder is run again on what is left in  *)
(* the buffer.                                                             *)
Decode ==
  /\ last_decode.called
  /\ last_decode.res = "some"
  /\ DecodeCall(src, decode(src))
  /\ UNCHANGED <<dst, blocks>>
  /\ UNCHANGED <<clientVars, serverVars, handleVars, connectVars, routerVars, parserVars>>

----------------------------------------------------------------------------
(* The client engine: callers, the session task, the peer.                 *)

(* ------------------------------ callers --------------------------------- *)

Return(c, status, value) ==
  /\ pc' = [pc EXCEPT ![c] = "idle"]
  /\ result' = [result EXCEPT ![c] = [status |-> status, value |-> value]]

(* A caller starts a call on the handle.                                   *)
Call(c, o) ==
  /\ handle = "held"
  /\ pc[c] = "idle"
  /\ calls < MaxCalls
  /\ calls' = calls + 1
  /\ op' = [op EXCEPT ![c] = [name |-> o.name, kind |-> o.kind, changed |-> o.changed,
                              call |-> calls + 1]]
  /\ pc' = [pc EXCEPT ![c] = IF o.changed = <<>> /\ o.kind \in ListKinds THEN "read" ELSE "request"]
  /\ last_ev' = [last_ev EXCEPT ![c] = "none"]
  /\ UNCHANGED <<cache, cmd_queue, pending_commands, slot, events, session, net_out, net_in,
                 peer, rx, result, issued, answers, resolved, stray>>
  /\ UNCHANGED <<codecVars, serverVars, handleVars, connectVars, routerVars, parserVars>>

(* get_*: the cache is read; a list it holds is returned at once.          *)
GetRead(c) ==
  /\ pc[c] = "read"
  /\ IF get_cached(cache, op[c].kind) # None
     THEN Return(c, "ok", get_cached(cache, op[c].kind)[1])
     ELSE /\ pc' = [pc EXCEPT ![c] = "send"]
          /\ UNCHANGED result
  /\ UNCHANGED <<cache, cmd_queue, pending_commands, slot, events, session, net_out, net_in,
                 peer, op, rx, last_ev, calls, issued, answers, resolved, stray>>
  /\ UNCHANGED <<codecVars, serverVars, handleVars, connectVars, routerVars, parserVars>>

(* request_and_wait_cache: cmd_tx.send(Command::Send); an error when the   *)
(* session task is gone.                                                   *)
GetSend(c) ==
  /\ pc[c] = "send"
  /\ IF session = "stopped"
     THEN /\ Return(c, "closed", <<>>)
          /\ UNCHANGED cmd_queue
     ELSE /\ cmd_queue' = Append(cmd_queue, [ack |-> FALSE, msg |-> RequestOf(op[c]),
                                             caller |-> c, call |-> op[c].call])
          /\ pc' = [pc EXCEPT ![c] = "subscribe"]
          /\ UNCHANGED result
  /\ UNCHANGED <<cache, pending_commands, slot, events, session, net_out, net_in,
                 peer, op, rx, last_ev, calls, issued, answers, resolved, stray>>
  /\ UNCHANGED <<codecVars, serverVars, handleVars, connectVars, routerVars, parserVars>>

(* request_and_wait_cache: cache_tx.subscribe(): the receiver sees what    *)
(* is published from now on.                                               *)
GetSubscribe(c) ==
  /\ pc[c] = "subscribe"
  /\ rx' = [rx EXCEPT ![c] = Len(events)]
  /\ pc' = [pc EXCEPT ![c] = "recv"]
  /\ UNCHANGED <<cache, cmd_queue, pending_commands, slot, events, session, net_out, net_in,
                 peer, op, last_ev, result, calls, issued, answers, resolved, stray>>
  /\ UNCHANGED <<codecVars, serverVars, handleVars, connectVars, routerVars, parserVars>>

(* request_and_wait_cache: one rx.recv(): the wanted event ends the wait,  *)
(* any other event is passed over.                                         *)
GetRecv(c) ==
  /\ pc[c] = "recv"
  /\ rx[c] < Len(events)
  /\ rx' = [rx EXCEPT ![c] = @ + 1]
  /\ last_ev' = [last_ev EXCEPT ![c] = events[rx[c] + 1]]
  /\ pc' = [pc EXCEPT ![c] = IF events[rx[c] + 1] = WantOf(op[c]) THEN "reread" ELSE "recv"]
  /\ UNCHANGED <<cache, cmd_queue, pending_commands, slot, events, session, net_out, net_in,
                 peer, op, result, calls, issued, answers, resolved, stray>>
  /\ UNCHANGED <<codecVars, serverVars, handleVars, connectVars, routerVars, parserVars>>

(* get_*: after the event, the cache is read again and the list returned.  *)
GetReread(c) ==
  /\ pc[c] = "reread"
  /\ Return(c, "ok", get_cached(cache, op[c].kind)[1])
  /\ UNCHANGED <<cache, cmd_queue, pending_commands, slot, events, session, net_out, net_in,
                 peer, op, rx, last_ev, calls, issued, answers, resolved, stray>>
  /\ UNCHANGED <<codecVars, serverVars, handleVars, connectVars, routerVars, parserVars>>

(* request_acked: cmd_tx.send(Command::Ack) with a fresh reply slot; an    *)
(* error when the session task is gone.                                    *)
AckSend(c) ==
  /\ pc[c] = "request"
  /\ IF session = "stopped"
     THEN /\ Return(c, "closed", <<>>)
          /\ UNCHANGED <<cmd_queue, slot>>
     ELSE /\ cmd_queue' = Append(cmd_queue, [ack |-> TRUE, msg |-> RequestOf(op[c]),
                                             caller |-> c, call |-> op[c].call])
          /\ slot' = [slot EXCEPT ![c] = "pending"]
          /\ pc' = [pc EXCEPT ![c] = "await"]
          /\ UNCHANGED result
  /\ UNCHANGED <<cache, pending_commands, events, session, net_out, net_in,
                 peer, op, rx, last_ev, calls, issued, answers, resolved, stray>>
  /\ UNCHANGED <<codecVars, serverVars, handleVars, connectVars, routerVars, parserVars>>

(* request_acked returns: rx.await.unwrap_or(false). is_alive returns the  *)
(* value; update_* merges the changes into the cache on true and returns   *)
(* the NAK error on false.                                                 *)
Resumed(c, w) ==
  IF op[c].name = "is_alive"
  THEN /\ Return(c, IF slot[c] = "true" THEN "true" ELSE "false", <<>>)
       /\ UNCHANGED cache
  ELSE IF slot[c] # "true"
  THEN /\ Return(c, "nak", <<>>)
       /\ UNCHANGED cache
  ELSE /\ Return(c, IF w.ok THEN "ok" ELSE "index", <<>>)
       /\ cache' = w.cache

AckResume(c) ==
  /\ pc[c] = "await"
  /\ slot[c] \in {"true", "false", "dropped"}
  /\ Resumed(c, WriteThrough(cache, op[c]))
  /\ slot' = [slot EXCEPT ![c] = "none"]
  /\ UNCHANGED <<cmd_queue, pending_commands, events, session, net_out, net_in,
                 peer, op, rx, last_ev, calls, issued, answers, resolved, stray>>
  /\ UNCHANGED <<codecVars, serverVars, handleVars, connectVars, routerVars, parserVars>>

(* --------------------------- the session task --------------------------- *)

(* select!: cmd_rx.recv() yields a command; an Ack command's slot is       *)
(* queued; the message is written.                                         *)
SessionCommand ==
  /\ session = "running"
  /\ cmd_queue # <<>>
  /\ cmd_queue' = Tail(cmd_queue)
  /\ net_out' = encode(Head(cmd_queue).msg, net_out)
  /\ IF Head(cmd_queue).ack
     THEN /\ pending_commands' = Append(pending_commands, Head(cmd_queue).caller)
          /\ issued' = Append(issued, [caller |-> Head(cmd_queue).caller,
                                        call |-> Head(cmd_queue).call])
     ELSE UNCHANGED <<pending_commands, issued>>
  /\ UNCHANGED <<cache, slot, events, session, net_in, peer, pc, op, rx, last_ev, result,
                 calls, answers, resolved, stray>>
  /\ UNCHANGED <<codecVars, serverVars, handleVars, connectVars, routerVars, parserVars>>

(* An inbound ACK or NAK: the oldest slot is resolved with msg == ACK;     *)
(* with no slot pending the frame is dropped.                              *)
AckFrame(msg) ==
  /\ IF pending_commands # <<>>
     THEN /\ slot' = [slot EXCEPT ![Head(pending_commands)] =
                        IF msg.kind = "ACK" THEN "true" ELSE "false"]
          /\ pending_commands' = Tail(pending_commands)
          /\ resolved' = Append(resolved, [caller |-> Head(pending_commands),
                                           ok |-> msg.kind = "ACK"])
          /\ UNCHANGED stray
     ELSE /\ stray' = [stray EXCEPT !.dropped = @ + 1]
          /\ UNCHANGED <<slot, pending_commands, resolved>>
  /\ UNCHANGED <<cache, events>>

(* A session task that publishes the event of a frame while the cache      *)
(* still holds the state before the merge.                                 *)
CacheFramePublishingFirst(u) ==
  /\ cache' = cache
  /\ events' = events \o u.event
  /\ UNCHANGED <<slot, pending_commands, resolved, stray>>

(* Any other inbound frame: the cache is updated and its event published.  *)
CacheFrame(u) ==
  /\ cache' = u.cache
  /\ events' = events \o u.event
  /\ UNCHANGED <<slot, pending_commands, resolved, stray>>

Framed(r) ==
  /\ r.res = "some"
  /\ net_in' = r.src
  /\ IF r.msg[1].kind \in {"ACK", "NAK"}
     THEN AckFrame(r.msg[1])
     ELSE CacheFrame(Inbound(cache, r.msg[1]))

(* select!: stream.next() yields a frame.                                  *)
SessionFrame ==
  /\ session = "running"
  /\ Framed(next_frame(net_in))
  /\ UNCHANGED <<cmd_queue, session, net_out, peer, pc, op, rx, last_ev, result, calls,
                 issued, answers>>
  /\ UNCHANGED <<codecVars, serverVars, handleVars, connectVars, routerVars, parserVars>>

(* A task end that keeps the reply slots of unanswered commands alive.     *)
StoppedKeepingSlots ==
  /\ session' = "stopped"
  /\ cmd_queue' = <<>>
  /\ pending_commands' = <<>>
  /\ UNCHANGED slot

(* The task ends: cmd_rx and the queued reply slots are dropped, so every  *)
(* slot still pending resolves as a dropped sender.                        *)
Stopped ==
  /\ session' = "stopped"
  /\ cmd_queue' = <<>>
  /\ pending_commands' = <<>>
  /\ slot' = [c \in Callers |-> IF slot[c] = "pending" THEN "dropped" ELSE slot[c]]

(* select!: stream.next() yields None, the peer has closed: Disconnected   *)
(* is published and the task ends.                                         *)
SessionPeerClosed ==
  /\ session = "running"
  /\ ~peer.connected
  /\ net_in = <<>>
  /\ events' = Append(events, "Disconnected")
  /\ Stopped
  /\ UNCHANGED <<cache, net_out, net_in, peer, pc, op, rx, last_ev, result, calls,
                 issued, answers, resolved, stray>>
  /\ UNCHANGED <<codecVars, serverVars, handleVars, connectVars, routerVars, parserVars>>

(* select!: stream.next() yields an Err frame, the codec could not parse   *)
(* what the peer wrote: the error is logged and the task ends.             *)
SessionCodecError ==
  /\ session = "running"
  /\ next_frame(net_in).res = "err"
  /\ Stopped
  /\ UNCHANGED <<cache, events, net_out, net_in, peer, pc, op, rx, last_ev, result, calls,
                 issued, answers, resolved, stray>>
  /\ UNCHANGED <<codecVars, serverVars, handleVars, connectVars, routerVars, parserVars>>

(* select!: cmd_rx.recv() yields None, every sender is gone and the queue  *)
(* is drained: Disconnected is published and the task ends.                *)
SessionCommandsClosed ==
  /\ session = "running"
  /\ handle = "dropped"
  /\ cmd_queue = <<>>
  /\ events' = Append(events, "Disconnected")
  /\ Stopped
  /\ UNCHANGED <<cache, net_out, net_in, peer, pc, op, rx, last_ev, result, calls,
                 issued, answers, resolved, stray>>
  /\ UNCHANGED <<codecVars, serverVars, handleVars, connectVars, routerVars, parserVars>>

(* The owner drops the VideohubRouter: no call borrows it any more, its    *)
(* event stream is gone, and cmd_tx is dropped with it.                    *)
HandleDrop ==
  /\ handle = "held"
  /\ \A c \in Callers : pc[c] = "idle"
  /\ handle' = "dropped"
  /\ stream_rx' = None
  /\ UNCHANGED <<stream_out, notified>>
  /\ UNCHANGED <<codecVars, clientVars, serverVars, connectVars, routerVars, parserVars>>

(* ------------------------------- the peer ------------------------------- *)

(* What the peer writes for a message it read, and its lists after.        *)
PeerReply(p, m, verdict) ==
  IF m.kind \in ListKinds /\ m.v = <<>>
  THEN [reply |-> Msg(m.kind, p[m.kind]), peer |-> p, answer |-> <<>>]
  ELSE IF m.kind \in ListKinds /\ verdict = "ACK"
  THEN [reply |-> Msg("ACK", <<>>), peer |-> PeerApply(p, m), answer |-> <<"ACK">>]
  ELSE IF m.kind \in ListKinds
  THEN [reply |-> Msg("NAK", <<>>), peer |-> p, answer |-> <<"NAK">>]
  ELSE [reply |-> Msg("ACK", <<>>), peer |-> p, answer |-> <<"ACK">>]

PeerWrite(a) ==
  /\ net_in' = encode(a.reply, net_in)
  /\ peer' = a.peer
  /\ answers' = answers \o a.answer

PeerRead(r, verdict) ==
  /\ r.res = "some"
  /\ verdict = "NAK" => r.msg[1].kind \in ListKinds /\ r.msg[1].v # <<>>
  /\ net_out' = r.src
  /\ PeerWrite(PeerReply(peer, r.msg[1], verdict))

(* The peer reads one message and answers it.                              *)
PeerReceive(verdict) ==
  /\ peer.connected
  /\ PeerRead(next_frame(net_out), verdict)
  /\ UNCHANGED <<cache, cmd_queue, pending_commands, slot, events, session, pc, op, rx,
                 last_ev, result, calls, issued, resolved, stray>>
  /\ UNCHANGED <<codecVars, serverVars, handleVars, connectVars, routerVars, parserVars>>

(* The peer writes an ACK or NAK nobody asked for, once every call is over *)
(* and nothing is in flight.                                               *)
PeerStray(kind) ==
  /\ peer.connected
  /\ session = "running"
  /\ ~stray.written
  /\ calls = MaxCalls
  /\ \A c \in Callers : pc[c] = "idle"
  /\ cmd_queue = <<>> /\ pending_commands = <<>> /\ net_out = <<>> /\ net_in = <<>>
  /\ stray' = [stray EXCEPT !.written = TRUE, !.cache = Some(cache)]
  /\ net_in' = encode(Msg(kind, <<>>), net_in)
  /\ UNCHANGED <<cache, cmd_queue, pending_commands, slot, events, session, net_out,
                 peer, pc, op, rx, last_ev, result, calls, issued, answers, resolved>>
  /\ UNCHANGED <<codecVars, serverVars, handleVars, connectVars, routerVars, parserVars>>

(* The peer closes the connection.                                         *)
PeerClose ==
  /\ peer.connected
  /\ peer' = [peer EXCEPT !.connected = FALSE]
  /\ UNCHANGED <<cache, cmd_queue, pending_commands, slot, events, session, net_out, net_in,
                 pc, op, rx, last_ev, result, calls, issued, answers, resolved, stray>>
  /\ UNCHANGED <<codecVars, serverVars, handleVars, connectVars, routerVars, parserVars>>

(* The peer writes a block the codec cannot parse: a lock state that is    *)
(* none of O, L, U.                                                        *)
GarbageBlock ==
  <<"V","I","D","E","O"," ","O","U","T","P","U","T"," ","L","O","C","K","S",":","\n","0"," ","X","\n","\n">>

EndsWith(buf, block) ==
  Len(buf) >= Len(block) /\ Drop(buf, Len(buf) - Len(block)) = block

PeerGarbage ==
  /\ peer.connected
  /\ ~EndsWith(net_in, GarbageBlock)
  /\ net_in' = net_in \o GarbageBlock
  /\ UNCHANGED <<cache, cmd_queue, pending_commands, slot, events, session, net_out,
                 peer, pc, op, rx, last_ev, result, calls, issued, answers, resolved, stray>>
  /\ UNCHANGED <<codecVars, serverVars, handleVars, connectVars, routerVars, parserVars>>

(* The router behind the peer changes a route on its own: the peer, as the *)
(* server does for a RouteUpdate, writes its whole routing table.          *)
MaxNotified == 1    \* route changes the peer's router makes on its own

PeerPatch == [from_input |-> 1, to_output |-> 1]

PeerRouteUpdate ==
  /\ peer.connected
  /\ Len(notified) < MaxNotified
  /\ notified' = Append(notified, PeerPatch)
  /\ peer' = PeerApply(peer, Msg("VideoOutputRouting", <<PeerPatch>>))
  /\ net_in' = encode(handle_event(RouterEventOf("RouteUpdate", FrontendIndex,
                                                 peer'.VideoOutputRouting))[1], net_in)
  /\ UNCHANGED <<handle, stream_rx, stream_out>>
  /\ UNCHANGED <<cache, cmd_queue, pending_commands, slot, events, session, net_out,
                 pc, op, rx, last_ev, result, calls, issued, answers, resolved, stray>>
  /\ UNCHANGED <<codecVars, serverVars, connectVars, routerVars, parserVars>>

(* ---------------------------- event_stream ------------------------------ *)

(* event_stream(): cache_tx.subscribe(); the stream sees what is published *)
(* from now on.                                                            *)
StreamSubscribe ==
  /\ handle = "held"
  /\ stream_rx = None
  /\ stream_rx' = Some(Len(events))
  /\ UNCHANGED <<handle, stream_out, notified>>
  /\ UNCHANGED <<codecVars, clientVars, serverVars, connectVars, routerVars, parserVars>>

(* The closure of filter_map: the RouterEvent for a CacheEvent, with the   *)
(* list the cache holds when the closure runs.                             *)
unwrap_or_default(opt) == IF opt = None THEN <<>> ELSE opt[1]

RouterEventFor(c, ev) ==
  IF ev = "InputLabels"
  THEN RouterEventOf("InputLabelUpdate", 0, unwrap_or_default(c.input_labels))
  ELSE IF ev = "OutputLabels"
  THEN RouterEventOf("OutputLabelUpdate", 0, unwrap_or_default(c.output_labels))
  ELSE IF ev = "Routes"
  THEN RouterEventOf("RouteUpdate", 0, unwrap_or_default(c.routes))
  ELSE RouterEventOf("Disconnected", 0, <<>>)

(* The stream is polled and yields the next event.                         *)
StreamNext ==
  /\ stream_rx # None
  /\ stream_rx[1] < Len(events)
  /\ stream_rx' = Some(stream_rx[1] + 1)
  /\ stream_out' = Append(stream_out, RouterEventFor(cache, events[stream_rx[1] + 1]))
  /\ UNCHANGED <<handle, notified>>
  /\ UNCHANGED <<codecVars, clientVars, serverVars, connectVars, routerVars, parserVars>>

(* ------------------------ unsolicited label blocks ---------------------- *)

MaxLabelUpdates == 3   \* label blocks the peer sends on its own

(* Partial label updates of a device with VideoInputs inputs and           *)
(* VideoOutputs outputs; some name an id the device does not have.         *)
InboundLabels ==
  { Msg("InputLabels", <<[id |-> 0, name |-> <<"A">>]>>),
    Msg("InputLabels", <<[id |-> 1, name |-> <<"B">>]>>),
    Msg("InputLabels", <<[id |-> 0, name |-> <<"C">>], [id |-> VideoInputs, name |-> <<"Z">>]>>),
    Msg("OutputLabels", <<[id |-> 2, name |-> <<"Q">>]>>),
    Msg("OutputLabels", <<[id |-> 1, name |-> <<"R">>], [id |-> 0, name |-> <<"S">>]>>),
    Msg("OutputLabels", <<[id |-> VideoOutputs, name |-> <<"Z">>]>>) }

(* The peer writes a label block nobody asked for.                         *)
PeerLabelUpdate(m) ==
  /\ peer.connected
  /\ Len(notified) < MaxLabelUpdates
  /\ notified' = Append(notified, m)
  /\ net_in' = encode(m, net_in)
  /\ UNCHANGED <<handle, stream_rx, stream_out>>
  /\ UNCHANGED <<cache, cmd_queue, pending_commands, slot, events, session, net_out,
                 peer, pc, op, rx, last_ev, result, calls, issued, answers, resolved, stray>>
  /\ UNCHANGED <<codecVars, serverVars, connectVars, routerVars, parserVars>>

(* ----------------------- unsolicited routing blocks --------------------- *)

(* Partial routing updates of a device with VideoInputs inputs and         *)
(* VideoOutputs outputs: patches within both dimensions, one to the output *)
(* whose number is not below the input count, patches outside a dimension, *)
(* and a block that names an output twice.                                 *)
InboundRoutings ==
  { Msg("VideoOutputRouting", <<[from_input |-> 1, to_output |-> 0]>>),
    Msg("VideoOutputRouting", <<[from_input |-> 0, to_output |-> VideoInputs]>>),
    Msg("VideoOutputRouting", <<[from_input |-> VideoInputs, to_output |-> 0]>>),
    Msg("VideoOutputRouting", <<[from_input |-> 0, to_output |-> VideoOutputs]>>),
    Msg("VideoOutputRouting", <<[from_input |-> 1, to_output |-> 1],
                                [from_input |-> 0, to_output |-> 1]>>) }

(* The peer writes a routing block nobody asked for.                       *)
PeerRoutingUpdate(m) ==
  /\ peer.connected
  /\ Len(notified) < MaxLabelUpdates
  /\ notified' = Append(notified, m)
  /\ net_in' = encode(m, net_in)
  /\ UNCHANGED <<handle, stream_rx, stream_out>>
  /\ UNCHANGED <<cache, cmd_queue, pending_commands, slot, events, session, net_out,
                 peer, pc, op, rx, last_ev, result, calls, issued, answers, resolved, stray>>
  /\ UNCHANGED <<codecVars, serverVars, connectVars, routerVars, parserVars>>

MaxUnasked == 2   \* blocks the peer sends on its own while readers are at work

(* The peer writes a block nobody asked for, while readers are at work.    *)
PeerUnasked(m) ==
  /\ Len(notified) < MaxUnasked
  /\ PeerLabelUpdate(m)

----------------------------------------------------------------------------
(* The server engine: connections and their clients.                       *)

(* handle_connection: a connection is accepted and subscribes to the       *)
(* router's events before anything is sent.                                *)
Accept(k) ==
  /\ conn[k].phase = "new"
  /\ conn' = [conn EXCEPT ![k].phase = "dump", ![k].rx = Len(router_tx)]
  /\ UNCHANGED <<router, router_tx, requests>>
  /\ UNCHANGED <<codecVars, clientVars, handleVars, connectVars, routerVars, parserVars>>

(* handle_connection: the next item of create_initial_dump is sent. After *)
(* the last item the connection enters its select loop.                    *)
Dumped(k, alive, item) ==
  conn' = [conn EXCEPT ![k].alive = alive,
                       ![k].sent = Append(@, item[1]),
                       ![k].step = @ + 1,
                       ![k].phase = IF item[1].kind = "EndPrelude" THEN "loop" ELSE "dump"]

DumpStep(k) ==
  /\ conn[k].phase = "dump"
  /\ conn[k].step # 1
  /\ Dumped(k, conn[k].alive,
            create_initial_dump(router, conn[k].alive = Some(TRUE), conn[k].step))
  /\ UNCHANGED <<router, router_tx, requests>>
  /\ UNCHANGED <<codecVars, clientVars, handleVars, connectVars, routerVars, parserVars>>

(* The item after Preamble: the router is asked is_alive, and its answer   *)
(* decides what DeviceInfo holds and what follows it.                      *)
DumpDeviceInfoStep(k, is_alive) ==
  /\ conn[k].phase = "dump"
  /\ conn[k].step = 1
  /\ Dumped(k, Some(is_alive), create_initial_dump(router, is_alive, conn[k].step))
  /\ UNCHANGED <<router, router_tx, requests>>
  /\ UNCHANGED <<codecVars, clientVars, handleVars, connectVars, routerVars, parserVars>>

(* A client writes a block to its connection.                              *)
ClientSend(k, m) ==
  /\ conn[k].phase \in {"dump", "loop"}
  /\ requests < MaxRequests
  /\ requests' = requests + 1
  /\ conn' = [conn EXCEPT ![k].inbox = encode(m, @)]
  /\ UNCHANGED <<router, router_tx>>
  /\ UNCHANGED <<codecVars, clientVars, handleVars, connectVars, routerVars, parserVars>>

(* A server that sends the reply to a message on every connection.         *)
HandledAnsweringAll(k, rest, msg, h) ==
  /\ router' = h.state
  /\ router_tx' = router_tx \o h.event
  /\ conn' = [j \in Conns |->
               IF j = k
               THEN [conn[j] EXCEPT !.inbox = rest,
                                    !.sent = @ \o h.reply,
                                    !.phase = IF h.ok THEN "loop" ELSE "failed",
                                    !.handled = Append(@, [msg |-> msg, router_ok |-> h.ok,
                                                           reply |-> h.reply, open |-> h.ok])]
               ELSE [conn[j] EXCEPT !.sent = @ \o h.reply]]

(* select!: framed.next() yields a message: handle_message, then the reply *)
(* is sent; an error of the router call ends handle_connection with Err.   *)
Handled(k, rest, msg, h) ==
  /\ router' = h.state
  /\ router_tx' = router_tx \o h.event
  /\ conn' = [conn EXCEPT ![k].inbox = rest,
                          ![k].sent = @ \o h.reply,
                          ![k].phase = IF h.ok THEN "loop" ELSE "failed",
                          ![k].handled = Append(@, [msg |-> msg, router_ok |-> h.ok,
                                                    reply |-> h.reply, open |-> h.ok])]

(* A connection that writes the notification of a change before the reply  *)
(* to the message that made it.                                            *)
ReceivedForwardingFirst(k, r) ==
  /\ r.res = "some"
  /\ router' = handle_message(router, r.msg[1]).state
  /\ router_tx' = router_tx \o handle_message(router, r.msg[1]).event
  /\ conn' = [conn EXCEPT
               ![k].inbox = r.src,
               ![k].sent = @ \o (IF handle_message(router, r.msg[1]).event # <<>>
                                    /\ conn[k].rx = Len(router_tx)
                                 THEN handle_event(handle_message(router, r.msg[1]).event[1])
                                 ELSE <<>>)
                             \o handle_message(router, r.msg[1]).reply,
               ![k].rx = IF handle_message(router, r.msg[1]).event # <<>>
                            /\ conn[k].rx = Len(router_tx)
                         THEN @ + 1 ELSE @,
               ![k].phase = IF handle_message(router, r.msg[1]).ok THEN "loop" ELSE "failed",
               ![k].handled = Append(@, [msg |-> r.msg[1],
                                         router_ok |-> handle_message(router, r.msg[1]).ok,
                                         reply |-> handle_message(router, r.msg[1]).reply,
                                         open |-> handle_message(router, r.msg[1]).ok])]

Received(k, r) ==
  /\ r.res = "some"
  /\ Handled(k, r.src, r.msg[1], handle_message(router, r.msg[1]))

Receive(k) ==
  /\ conn[k].phase = "loop"
  /\ Received(k, decode(conn[k].inbox))
  /\ UNCHANGED requests
  /\ UNCHANGED <<codecVars, clientVars, handleVars, connectVars, routerVars, parserVars>>

(* A connection that forwards router events while the dump is being sent.  *)
EventDuringDump(k) ==
  /\ conn[k].phase \in {"dump", "loop"}
  /\ conn[k].rx < Len(router_tx)
  /\ conn' = [conn EXCEPT ![k].rx = @ + 1,
                          ![k].sent = @ \o handle_event(router_tx[conn[k].rx + 1])]
  /\ UNCHANGED <<router, router_tx, requests>>
  /\ UNCHANGED <<codecVars, clientVars, handleVars, connectVars, routerVars, parserVars>>

(* select!: ev_stream.next() yields a RouterEvent: handle_event, then the  *)
(* converted message, if any, is sent.                                     *)
Event(k) ==
  /\ conn[k].phase = "loop"
  /\ conn[k].rx < Len(router_tx)
  /\ conn' = [conn EXCEPT ![k].rx = @ + 1,
                          ![k].sent = @ \o handle_event(router_tx[conn[k].rx + 1])]
  /\ UNCHANGED <<router, router_tx, requests>>
  /\ UNCHANGED <<codecVars, clientVars, handleVars, connectVars, routerVars, parserVars>>

(* select!: framed.next() yields None, the client has closed.              *)
ClientClosed(k) ==
  /\ conn[k].phase = "loop"
  /\ conn[k].inbox = <<>>
  /\ conn' = [conn EXCEPT ![k].phase = "closed"]
  /\ UNCHANGED <<router, router_tx, requests>>
  /\ UNCHANGED <<codecVars, clientVars, handleVars, connectVars, routerVars, parserVars>>

(* DummyRouter::push_event: an event is broadcast to every subscriber.     *)
PushEvent(ev) ==
  /\ Len(router_tx) < MaxPushed
  /\ router_tx' = Append(router_tx, ev)
  /\ UNCHANGED <<router, conn, requests>>
  /\ UNCHANGED <<codecVars, clientVars, handleVars, connectVars, routerVars, parserVars>>

----------------------------------------------------------------------------
(* VideohubRouter::connect: what the peer writes before a handle exists,   *)
(* and the loop that reads it.                                             *)

MaxHello == 3       \* blocks the peer writes during connect

(* The blocks of a server's initial dump for a router that is alive and    *)
(* for one that is not, a DeviceInfo with the inputs only, one of another  *)
(* size, and blocks that are neither Preamble nor DeviceInfo.              *)
HelloMessages ==
  { Msg("Preamble", <<"2", ".", "7">>),
    Msg("DeviceInfo", <<DumpDeviceInfo(DummyInit, TRUE)>>),
    Msg("DeviceInfo", <<DumpDeviceInfo(DummyInit, FALSE)>>),
    Msg("DeviceInfo", <<[DefaultDeviceInfo EXCEPT !.video_inputs = Some(VideoInputs)]>>),
    Msg("DeviceInfo", <<[DefaultDeviceInfo EXCEPT !.video_inputs = Some(1),
                                                  !.video_outputs = Some(1)]>>),
    gen_inputlabels(DummyInit),
    Msg("EndPrelude", <<>>) }

HelloWrite(m) ==
  /\ hello_open
  /\ hello_count < MaxHello
  /\ hello_count' = hello_count + 1
  /\ hello' = encode(m, hello)
  /\ UNCHANGED <<hello_open, connect>>
  /\ UNCHANGED <<codecVars, clientVars, serverVars, handleVars, routerVars, parserVars>>

HelloGarbage ==
  /\ hello_open
  /\ hello_count < MaxHello
  /\ hello_count' = hello_count + 1
  /\ hello' = hello \o GarbageBlock
  /\ UNCHANGED <<hello_open, connect>>
  /\ UNCHANGED <<codecVars, clientVars, serverVars, handleVars, routerVars, parserVars>>

HelloClose ==
  /\ hello_open
  /\ hello_open' = FALSE
  /\ UNCHANGED <<hello, hello_count, connect>>
  /\ UNCHANGED <<codecVars, clientVars, serverVars, handleVars, routerVars, parserVars>>

(* One pass of the loop body on a message: seen_pre, seen_di, the cached   *)
(* matrix_info, and the error of a missing count.                          *)
Seen(c, msg) ==
  [c EXCEPT !.seen_pre = @ \/ msg.kind = "Preamble",
            !.seen_di = @ \/ msg.kind = "DeviceInfo",
            !.frames = Append(@, msg)]

Counted(c, di) ==
  IF di.video_inputs = None \/ di.video_outputs = None
  THEN [c EXCEPT !.state = "err"]
  ELSE [c EXCEPT !.matrix_info = [input_count |-> di.video_inputs[1],
                                  output_count |-> di.video_outputs[1]]]

(* A loop body that takes a missing count as zero.                         *)
connect_frame_defaulting(c, msg) ==
  IF msg.kind = "DeviceInfo"
  THEN [Seen(c, msg) EXCEPT !.matrix_info =
          [input_count |-> IF msg.v[1].video_inputs = None THEN 0 ELSE msg.v[1].video_inputs[1],
           output_count |-> IF msg.v[1].video_outputs = None THEN 0
                            ELSE msg.v[1].video_outputs[1]]]
  ELSE Seen(c, msg)

connect_frame(c, msg) ==
  IF msg.kind = "DeviceInfo" THEN Counted(Seen(c, msg), msg.v[1]) ELSE Seen(c, msg)

(* The loop condition after a pass: with both seen the client is built,    *)
(* the session task is spawned and the handle returned.                    *)
Connected(c) ==
  IF c.state = "reading" /\ c.seen_pre /\ c.seen_di
  THEN [c EXCEPT !.state = "ok", !.spawned = TRUE]
  ELSE c

(* framed.next() yields a message.                                         *)
ConnectRead(r) ==
  /\ r.res = "some"
  /\ hello' = r.src
  /\ connect' = Connected(connect_frame(connect, r.msg[1]))

ConnectFrame ==
  /\ connect.state = "reading"
  /\ ConnectRead(decode(hello))
  /\ UNCHANGED <<hello_open, hello_count>>
  /\ UNCHANGED <<codecVars, clientVars, serverVars, handleVars, routerVars, parserVars>>

(* framed.next() yields Some(Err): the second ? returns the error.         *)
ConnectCodecError ==
  /\ connect.state = "reading"
  /\ decode(hello).res = "err"
  /\ connect' = [connect EXCEPT !.state = "err"]
  /\ UNCHANGED <<hello, hello_open, hello_count>>
  /\ UNCHANGED <<codecVars, clientVars, serverVars, handleVars, routerVars, parserVars>>

(* framed.next() yields None, the stream has ended: "EOF during connect".  *)
ConnectEof ==
  /\ connect.state = "reading"
  /\ ~hello_open
  /\ decode(hello).res = "none"
  /\ connect' = [connect EXCEPT !.state = "err"]
  /\ UNCHANGED <<hello, hello_open, hello_count>>
  /\ UNCHANGED <<codecVars, clientVars, serverVars, handleVars, routerVars, parserVars>>

----------------------------------------------------------------------------
(* The DummyRouter called directly through the MatrixRouter interface.     *)

MaxRouterCalls == 3   \* calls made on the router in one run

MatrixIndices == 0..MatrixCount

LabelChanges ==
  { <<>>,
    <<[id |-> 1, name |-> <<"X">>]>>,
    <<[id |-> 2, name |-> <<"Y">>]>>,
    <<[id |-> 0, name |-> <<"W">>], [id |-> 5, name |-> <<"Z">>]>> }

PatchChanges ==
  { <<>>,
    <<[from_input |-> 1, to_output |-> 0]>>,
    <<[from_input |-> 1, to_output |-> 2], [from_input |-> 1, to_output |-> 1]>>,
    <<[from_input |-> 2, to_output |-> 0]>>,
    <<[from_input |-> 0, to_output |-> 3]>> }

RouterUpdates ==
  {[name |-> "update_input_labels", changed |-> ch] : ch \in LabelChanges}
    \cup {[name |-> "update_output_labels", changed |-> ch] : ch \in LabelChanges}
    \cup {[name |-> "update_routes", changed |-> ch] : ch \in PatchChanges}

RouterGets ==
  { [name |-> "get_matrix_info", field |-> "matrix_info"],
    [name |-> "get_input_labels", field |-> "input_labels"],
    [name |-> "get_output_labels", field |-> "output_labels"],
    [name |-> "get_routes", field |-> "routes"] }

dummy_update(st, name, index, changed) ==
  IF name = "update_input_labels" THEN dummy_update_input_labels(st, index, changed)
  ELSE IF name = "update_output_labels" THEN dummy_update_output_labels(st, index, changed)
  ELSE dummy_update_routes(st, index, changed)

Called(name, index, changed, ok, value) ==
  last_call' = [n |-> last_call.n + 1, name |-> name, index |-> index, changed |-> changed,
                ok |-> ok, value |-> value, router |-> router, router_tx |-> router_tx]

RouterUpdated(u, index, r) ==
  /\ router' = r.state
  /\ router_tx' = router_tx \o r.event
  /\ Called(u.name, index, u.changed, r.ok, <<>>)

RouterUpdate(u, index) ==
  /\ last_call.n < MaxRouterCalls
  /\ RouterUpdated(u, index, dummy_update(router, u.name, index, u.changed))
  /\ UNCHANGED <<conn, requests>>
  /\ UNCHANGED <<codecVars, clientVars, handleVars, connectVars, parserVars>>

RouterGot(g, index, r) == Called(g.name, index, <<>>, r.ok, r.value)

RouterGet(g, index) ==
  /\ last_call.n < MaxRouterCalls
  /\ RouterGot(g, index, dummy_get(router, index, g.field))
  /\ UNCHANGED <<router, router_tx, conn, requests>>
  /\ UNCHANGED <<codecVars, clientVars, handleVars, connectVars, parserVars>>

----------------------------------------------------------------------------
(* The parser called directly on a byte slice that holds whole blocks.     *)
(* A block is written as its lines, the last of them the empty line that   *)
(* ends it; each line is ended by LF or by CRLF.                           *)

MaxWire == 2   \* blocks in the parser's input

(* Blocks of every kind the parser knows, and two with a header it does    *)
(* not know.                                                               *)
WellFormedBlocks ==
  { <<<<"P","R","O","T","O","C","O","L"," ","P","R","E","A","M","B","L","E",":">>, <<"V","e","r","s","i","o","n",":"," ","2",".","7">>, <<>>>>,
    <<<<"V","I","D","E","O","H","U","B"," ","D","E","V","I","C","E",":">>, <<"F","r","i","e","n","d","l","y"," ","n","a","m","e",":"," ","H","u","b">>, <<>>>>,
    <<<<"V","I","D","E","O","H","U","B"," ","D","E","V","I","C","E",":">>, <<"U","n","i","q","u","e"," ","I","D",":"," ","A","1">>, <<"F","r","i","e","n","d","l","y"," ","n","a","m","e",":"," ","H","u","b">>, <<>>>>,
    <<<<"V","I","D","E","O","H","U","B"," ","D","E","V","I","C","E",":">>, <<"D","e","v","i","c","e"," ","p","r","e","s","e","n","t",":"," ","t","r","u","e">>, <<"V","i","d","e","o"," ","i","n","p","u","t","s",":"," ","2">>, <<>>>>,
    <<<<"I","N","P","U","T"," ","L","A","B","E","L","S",":">>, <<"0"," ","C","a","m">>, <<"1"," ","b">>, <<>>>>,
    <<<<"O","U","T","P","U","T"," ","L","A","B","E","L","S",":">>, <<>>>>,
    <<<<"V","I","D","E","O"," ","O","U","T","P","U","T"," ","R","O","U","T","I","N","G",":">>, <<"0"," ","1">>, <<"1"," ","0">>, <<>>>>,
    <<<<"V","I","D","E","O"," ","O","U","T","P","U","T"," ","L","O","C","K","S",":">>, <<"0"," ","U">>, <<>>>>,
    <<<<"V","I","D","E","O"," ","I","N","P","U","T"," ","S","T","A","T","U","S",":">>, <<"0"," ","B","N","C">>, <<"1"," ","X","l","r">>, <<>>>>,
    <<<<"C","O","N","F","I","G","U","R","A","T","I","O","N",":">>, <<"T","a","k","e"," ","M","o","d","e",":"," ","t","r","u","e">>, <<>>>>,
    <<<<"P","I","N","G",":">>, <<>>>>,
    <<<<"A","C","K">>, <<>>>>,
    <<<<"E","N","D"," ","P","R","E","L","U","D","E",":">>, <<>>>>,
    <<<<"F","O","O",":">>, <<"B","a","r"," ","1">>, <<>>>>,
    <<<<"F","O","O",":">>, <<>>>> }

(* Blocks with a number of ten digits: one that fits a u32, the others     *)
(* u32::MAX + 1.                                                           *)
NumberBlocks ==
  { <<<<"I","N","P","U","T"," ","L","A","B","E","L","S",":">>, <<"2","1","4","7","4","8","3","6","4","7"," ","a">>, <<>>>>,
    <<<<"I","N","P","U","T"," ","L","A","B","E","L","S",":">>, <<"4","2","9","4","9","6","7","2","9","6"," ","a">>, <<>>>>,
    <<<<"O","U","T","P","U","T"," ","L","A","B","E","L","S",":">>, <<"0"," ","a">>, <<"4","2","9","4","9","6","7","2","9","6"," ","b">>, <<>>>>,
    <<<<"V","I","D","E","O"," ","O","U","T","P","U","T"," ","R","O","U","T","I","N","G",":">>, <<"0"," ","4","2","9","4","9","6","7","2","9","6">>, <<>>>>,
    <<<<"V","I","D","E","O"," ","O","U","T","P","U","T"," ","L","O","C","K","S",":">>, <<"4","2","9","4","9","6","7","2","9","6"," ","U">>, <<>>>>,
    <<<<"V","I","D","E","O"," ","I","N","P","U","T"," ","S","T","A","T","U","S",":">>, <<"4","2","9","4","9","6","7","2","9","6"," ","B","N","C">>, <<>>>>,
    <<<<"V","I","D","E","O","H","U","B"," ","D","E","V","I","C","E",":">>, <<"V","i","d","e","o"," ","i","n","p","u","t","s",":"," ","4","2","9","4","9","6","7","2","9","6">>, <<>>>> }

(* The blocks that follow another block in the input.                      *)
FollowBlocks ==
  { <<<<"P","I","N","G",":">>, <<>>>>,
    <<<<"I","N","P","U","T"," ","L","A","B","E","L","S",":">>, <<"0"," ","C","a","m">>, <<"1"," ","b">>, <<>>>>,
    <<<<"F","O","O",":">>, <<"B","a","r"," ","1">>, <<>>>> }

(* Status blocks with each port type token.                                *)
StatusBlocks ==
  { <<<<"V","I","D","E","O"," ","O","U","T","P","U","T"," ","S","T","A","T","U","S",":">>, <<"0"," ","N","o","n","e">>, <<"1"," ","O","p","t","i","c","a","l">>, <<>>>>,
    <<<<"S","E","R","I","A","L"," ","P","O","R","T"," ","S","T","A","T","U","S",":">>, <<"0"," ","R","S","4","2","2">>, <<"1"," ","T","h","u","n","d","e","r","b","o","l","t">>, <<>>>>,
    <<<<"V","I","D","E","O"," ","I","N","P","U","T"," ","S","T","A","T","U","S",":">>, <<"0"," ","o","n","e">>, <<>>>> }

ParserBlocks == WellFormedBlocks \cup NumberBlocks \cup StatusBlocks

Entry3(lines, crlf, lower) == [lines |-> lines, crlf |-> crlf, lower |-> lower]

FirstEntries ==
  UNION {{Entry3(b, crlf, lower) : crlf \in SUBSET (1..Len(b)), lower \in BOOLEAN} :
         b \in ParserBlocks}

FollowEntries ==
  UNION {{Entry3(b, {}, FALSE), Entry3(b, 1..Len(b), FALSE)} : b \in FollowBlocks}

LineEnding(crlf) == IF crlf THEN <<"\r", "\n">> ELSE <<"\n">>

RECURSIVE RenderLines(_, _, _)
RenderLines(lines, crlf, k) ==
  IF k > Len(lines) THEN <<>>
  ELSE lines[k] \o LineEnding(k \in crlf) \o RenderLines(lines, crlf, k + 1)

(* The bytes of one block of the input.                                    *)
Rendered(e) ==
  IF e.lower THEN to_ascii_lowercase(RenderLines(e.lines, e.crlf, 1))
  ELSE RenderLines(e.lines, e.crlf, 1)

RECURSIVE WireBytes(_)
WireBytes(w) == IF w = <<>> THEN <<>> ELSE Rendered(Head(w)) \o WireBytes(Tail(w))

(* A block is appended to the input before the parser is called.           *)
WireBlock(e) ==
  /\ parsed.fn = "none"
  /\ Len(wire) < MaxWire
  /\ e \in (IF wire = <<>> THEN FirstEntries ELSE FollowEntries)
  /\ wire' = Append(wire, e)
  /\ UNCHANGED parsed
  /\ UNCHANGED <<codecVars, clientVars, serverVars, handleVars, connectVars, routerVars>>

ParsedBy(fn, input, r) ==
  parsed' = [fn |-> fn, input |-> input, result |-> r]

(* parse_single_block(input)                                               *)
ParseSingleBlock ==
  /\ parsed.fn = "none"
  /\ wire # <<>>
  /\ ParsedBy("parse_single_block", WireBytes(wire), parse_single_block(WireBytes(wire)))
  /\ UNCHANGED wire
  /\ UNCHANGED <<codecVars, clientVars, serverVars, handleVars, connectVars, routerVars>>

(* parse_all_blocks(input)                                                 *)
ParseAllBlocks ==
  /\ parsed.fn = "none"
  /\ wire # <<>>
  /\ ParsedBy("parse_all_blocks", WireBytes(wire), parse_all_blocks(WireBytes(wire)))
  /\ UNCHANGED wire
  /\ UNCHANGED <<codecVars, clientVars, serverVars, handleVars, connectVars, routerVars>>

----------------------------------------------------------------------------
(* The specifications.                                                     *)

CodecNext ==
  \/ \E m \in CodecMessages : Encode(m)
  \/ \E b \in RawBlocks : WriteRaw(b)
  \/ \E k \in {1, Len(dst)} : Arrive(k)
  \/ Decode

SpecCodec == Init /\ [][CodecNext]_vars

Ops == GetOps \cup AckOps

Next ==
  \/ \E c \in Callers, o \in Ops : Call(c, o)
  \/ \E c \in Callers : GetRead(c)
  \/ \E c \in Callers : GetSend(c)
  \/ \E c \in Callers : GetSubscribe(c)
  \/ \E c \in Callers : GetRecv(c)
  \/ \E c \in Callers : GetReread(c)
  \/ \E c \in Callers : AckSend(c)
  \/ \E c \in Callers : AckResume(c)
  \/ SessionCommand
  \/ SessionFrame
  \/ SessionPeerClosed
  \/ \E verdict \in {"ACK", "NAK"} : PeerReceive(verdict)
  \/ \E kind \in {"ACK", "NAK"} : PeerStray(kind)
  \/ PeerClose

Spec == Init /\ [][Next]_vars

ServerNext ==
  \/ \E k \in Conns : Accept(k)
  \/ \E k \in Conns : DumpStep(k)
  \/ \E k \in Conns, is_alive \in BOOLEAN : DumpDeviceInfoStep(k, is_alive)
  \/ \E k \in Conns, m \in Requests : ClientSend(k, m)
  \/ \E k \in Conns : Receive(k)
  \/ \E k \in Conns : Event(k)
  \/ \E k \in Conns : ClientClosed(k)

SpecServer == Init /\ [][ServerNext]_vars

(* Read-through gets against a peer that stays connected and answers, with *)
(* every task scheduled again and again: the tokio runtime polls a task    *)
(* that can make progress, and the peer answers what it has read.          *)
LiveNext ==
  \/ \E c \in Callers, o \in GetOps : Call(c, o)
  \/ \E c \in Callers : GetRead(c)
  \/ \E c \in Callers : GetSend(c)
  \/ \E c \in Callers : GetSubscribe(c)
  \/ \E c \in Callers : GetRecv(c)
  \/ \E c \in Callers : GetReread(c)
  \/ SessionCommand
  \/ SessionFrame
  \/ PeerReceive("ACK")

CallerStep(c) == GetRead(c) \/ GetSend(c) \/ GetSubscribe(c) \/ GetRecv(c) \/ GetReread(c)

SpecLive ==
  /\ Init
  /\ [][LiveNext]_vars
  /\ WF_vars(SessionCommand)
  /\ WF_vars(SessionFrame)
  /\ WF_vars(PeerReceive("ACK"))
  /\ \A c \in Callers : WF_vars(CallerStep(c))

(* The session with every way it can end: the peer closes, the peer writes *)
(* what cannot be parsed, the handle is dropped.                           *)
SessionNext ==
  \/ Next
  \/ SessionCodecError
  \/ SessionCommandsClosed
  \/ HandleDrop
  \/ PeerGarbage

SpecSession == Init /\ [][SessionNext]_vars

(* One connection of the server, clients that write blocks of every kind,  *)
(* and a router whose owner pushes events of every variant.                *)
ServiceNext ==
  \/ Accept(1)
  \/ DumpStep(1)
  \/ \E is_alive \in BOOLEAN : DumpDeviceInfoStep(1, is_alive)
  \/ \E m \in ListRequests \cup OtherRequests : ClientSend(1, m)
  \/ Receive(1)
  \/ Event(1)
  \/ ClientClosed(1)
  \/ \E ev \in PushedEvents : PushEvent(ev)

SpecService == Init /\ [][ServiceNext]_vars

(* connect() against a peer that writes its first blocks and may close.    *)
ConnectNext ==
  \/ \E m \in HelloMessages : HelloWrite(m)
  \/ HelloGarbage
  \/ HelloClose
  \/ ConnectFrame
  \/ ConnectCodecError
  \/ ConnectEof

SpecConnect == Init /\ [][ConnectNext]_vars

(* The handle with its event stream, against a peer whose router changes   *)
(* routes on its own.                                                      *)
StreamNextStep ==
  \/ Next
  \/ StreamSubscribe
  \/ StreamNext
  \/ PeerRouteUpdate

SpecStream == Init /\ [][StreamNextStep]_vars

(* is_alive against a peer that may answer, stay silent or close: the      *)
(* runtime polls every task of the handle's process that can make          *)
(* progress; nothing makes the peer act.                                   *)
AliveNext ==
  \/ \E c \in Callers : Call(c, PingOp)
  \/ \E c \in Callers : AckSend(c)
  \/ \E c \in Callers : AckResume(c)
  \/ SessionCommand
  \/ SessionFrame
  \/ SessionPeerClosed
  \/ PeerReceive("ACK")
  \/ PeerClose

AliveStep(c) == AckSend(c) \/ AckResume(c)

SpecAlive ==
  /\ Init
  /\ [][AliveNext]_vars
  /\ WF_vars(SessionCommand)
  /\ WF_vars(SessionFrame)
  /\ WF_vars(SessionPeerClosed)
  /\ \A c \in Callers : WF_vars(AliveStep(c))

(* The router alone, called with changes in and out of range, on a matrix  *)
(* it has and on one it has not.                                           *)
RouterNext ==
  \/ \E u \in RouterUpdates, index \in MatrixIndices : RouterUpdate(u, index)
  \/ \E g \in RouterGets, index \in MatrixIndices : RouterGet(g, index)

SpecRouter == Init /\ [][RouterNext]_vars

(* The parser on its own: an input of whole blocks is written, then one of *)
(* the two parser functions is called on it.                               *)
ParserNext ==
  \/ \E e \in FirstEntries \cup FollowEntries : WireBlock(e)
  \/ ParseSingleBlock
  \/ ParseAllBlocks

SpecParser == Init /\ [][ParserNext]_vars


(* The session task against a peer that sends label blocks on its own.     *)
InboundNext ==
  \/ \E m \in InboundLabels : PeerLabelUpdate(m)
  \/ SessionFrame

SpecInbound == Init /\ [][InboundNext]_vars

(* The session task against a peer that sends label and routing blocks on  *)
(* its own.                                                                *)
MergeNext ==
  \/ \E m \in InboundLabels : PeerLabelUpdate(m)
  \/ \E m \in InboundRoutings : PeerRoutingUpdate(m)
  \/ SessionFrame

SpecMerge == Init /\ [][MergeNext]_vars

(* Readers beside the session task: the event stream and read-through      *)
(* get_* calls, while the peer sends label and routing blocks on its own.  *)
ReaderBlocks ==
  { Msg("InputLabels", <<[id |-> 0, name |-> <<"A">>]>>),
    Msg("InputLabels", <<[id |-> 1, name |-> <<"B">>]>>),
    Msg("VideoOutputRouting", <<[from_input |-> 1, to_output |-> 0]>>) }

Readers == {1}   \* the callers that make get_* calls beside the stream

ReadersNext ==
  \/ \E m \in ReaderBlocks : PeerUnasked(m)
  \/ SessionFrame
  \/ StreamSubscribe
  \/ StreamNext
  \/ \E c \in Readers : \E o \in GetOps : Call(c, o)
  \/ \E c \in Readers : GetRead(c)
  \/ \E c \in Readers : GetSend(c)
  \/ \E c \in Readers : GetSubscribe(c)
  \/ \E c \in Readers : GetRecv(c)
  \/ \E c \in Readers : GetReread(c)
  \/ SessionCommand

SpecReaders == Init /\ [][ReadersNext]_vars

(* Two clients of the same server that change routes.                      *)
ClientsNext ==
  \/ \E k \in Conns : Accept(k)
  \/ \E k \in Conns : DumpStep(k)
  \/ \E k \in Conns, is_alive \in BOOLEAN : DumpDeviceInfoStep(k, is_alive)
  \/ \E k \in Conns, m \in ClientsRequests : ClientSend(k, m)
  \/ \E k \in Conns : Receive(k)
  \/ \E k \in Conns : Event(k)
  \/ \E k \in Conns : ClientClosed(k)

SpecClients == Init /\ [][ClientsNext]_vars

(* Blocks of the peer and updates of the callers that repeat an id or an   *)
(* output.                                                                 *)
RepeatNext ==
  \/ \E m \in RepeatingBlocks : PeerUnasked(m)
  \/ \E c \in Callers, o \in RepeatingOps : Call(c, o)
  \/ \E c \in Callers : AckSend(c)
  \/ \E c \in Callers : AckResume(c)
  \/ SessionCommand
  \/ SessionFrame
  \/ \E verdict \in {"ACK", "NAK"} : PeerReceive(verdict)

SpecRepeat == Init /\ [][RepeatNext]_vars

----------------------------------------------------------------------------
(* Properties of the client engine's acknowledgement pairing.              *)

(* The peer's answer to the Ack command of call id, "none" if there is no  *)
(* answer (yet).                                                           *)
AnswerAt(k) == IF k <= Len(answers) THEN answers[k] ELSE "none"

AnswerTo(id) ==
  IF \E k \in 1..Len(issued) : issued[k].call = id
  THEN AnswerAt(CHOOSE k \in 1..Len(issued) : issued[k].call = id)
  ELSE "none"

(* C1: the k-th ACK or NAK that arrives resolves the k-th acknowledged     *)
(* command that was sent, and resolves it for nobody else: an ACK as true, *)
(* a NAK as false. An ACK or NAK that arrives while no reply slot is       *)
(* pending changes nothing: the cache is as it was, no slot is resolved.   *)
C1_AckPairing ==
  /\ \A k \in 1..Len(resolved) :
       /\ resolved[k].caller = issued[k].caller
       /\ resolved[k].ok = (AnswerAt(k) = "ACK")
  /\ stray.dropped > 0 =>
       /\ cache = stray.cache[1]
       /\ pending_commands = <<>>
       /\ \A c \in Callers : slot[c] = "none"

----------------------------------------------------------------------------
(* Properties of the server engine.                                        *)

ExpectedDump(alive) ==
  IF alive
  THEN <<"Preamble", "DeviceInfo", "InputLabels", "OutputLabels", "VideoOutputRouting",
         "EndPrelude">>
  ELSE <<"Preamble", "DeviceInfo", "EndPrelude">>

KindsOf(list) == [k \in 1..Len(list) |-> list[k].kind]

IsPrefix(p, s) == Len(p) <= Len(s) /\ p = Take(s, Len(p))

(* What a connection has sent is a part of the dump for the answer alive   *)
(* while it dumps, and starts with the whole dump afterwards.              *)
DumpOrder(c, alive) ==
  IF c.phase = "new" THEN c.sent = <<>>
  ELSE IF c.phase = "dump"
  THEN /\ Len(c.sent) < Len(ExpectedDump(alive))
       /\ IsPrefix(KindsOf(c.sent), ExpectedDump(alive))
  ELSE IsPrefix(ExpectedDump(alive), KindsOf(c.sent))

(* C2: a new connection is sent, before anything else, Preamble,           *)
(* DeviceInfo, then (only if the router is alive) input labels, output     *)
(* labels and routing, then EndPrelude, in this order.                     *)
C2_InitialDumpOrder ==
  \A k \in Conns :
    IF conn[k].alive = None
    THEN conn[k].phase \in {"new", "dump"} /\ DumpOrder(conn[k], TRUE) /\ DumpOrder(conn[k], FALSE)
    ELSE DumpOrder(conn[k], conn[k].alive[1])

(* Two connections past their dump, one of a live router that went on to   *)
(* answer a request, one of a router that was not alive.                   *)
C2_BothDumpsSent ==
  \E j, k \in Conns :
    /\ conn[j].phase = "loop" /\ conn[j].alive = Some(TRUE) /\ Len(conn[j].sent) > 6
    /\ conn[k].phase = "loop" /\ conn[k].alive = Some(FALSE) /\ Len(conn[k].sent) = 3

(* C3: a mutation (a label or routing block with a non-empty body) gets    *)
(* exactly one reply: ACK if the router applied it, NAK if the router      *)
(* refused it; and the connection stays open.                              *)
C3_MutationReply ==
  \A k \in Conns : \A j \in 1..Len(conn[k].handled) :
    (conn[k].handled[j].msg.kind \in ListKinds /\ conn[k].handled[j].msg.v # <<>>) =>
      /\ KindsOf(conn[k].handled[j].reply) =
           (IF conn[k].handled[j].router_ok THEN <<"ACK">> ELSE <<"NAK">>)
      /\ conn[k].handled[j].open

----------------------------------------------------------------------------
(* Properties of the client engine's cache.                                *)

UpdateNames == {"update_input_labels", "update_output_labels", "update_routes"}

Returns(c, from) == pc[c] = from /\ pc'[c] = "idle"

Reflects(opt, changed) ==
  /\ opt # None
  /\ \A i \in 1..Len(changed) : \E j \in 1..Len(opt[1]) : opt[1][j] = changed[i]

(* C4: when update_input_labels, update_output_labels or update_routes     *)
(* returns success, the cached list of that kind holds the changes, so the *)
(* next get of that kind returns them from the cache.                      *)
C4_CacheCoherence ==
  [][\A c \in Callers :
       (Returns(c, "await") /\ op[c].name \in UpdateNames /\ result'[c].status = "ok") =>
         Reflects(get_cached(cache', op[c].kind), op[c].changed)]_vars

(* C5: an update the peer answered with NAK returns the Rejected error and *)
(* leaves the cache as it was, and the NAK does not end the session.       *)
C5_NakRejected ==
  [][/\ \A c \in Callers :
          (Returns(c, "await") /\ op[c].name \in UpdateNames /\ AnswerTo(op[c].call) = "NAK") =>
            (result'[c].status = "nak" /\ cache' = cache)
     /\ (Len(resolved') > Len(resolved) /\ AnswerAt(Len(resolved')) = "NAK") =>
          session' = "running"]_vars

----------------------------------------------------------------------------
(* Properties of the codec.                                                *)

(* The header line of a block, trimmed and in upper case.                  *)
HeaderOf(block) == to_ascii_uppercase(trim_ascii(take_until_newline(block).out))

NakLiteral == <<"N", "A", "K">>
AckLiteral == <<"A", "C", "K">>

(* The first block on the stream has been decoded as the first message.    *)
FirstDecoded == Len(blocks) >= 1 /\ Len(decoded) >= 1

(* C6: a block whose header is NAK, in any letter case, is parsed as the   *)
(* NAK message and a block whose header is ACK as the ACK message; the two *)
(* are parsed to different messages.                                       *)
C6_NakIsNotAck ==
  FirstDecoded =>
    /\ HeaderOf(blocks[1].bytes) = NakLiteral => decoded[1].kind = "NAK"
    /\ HeaderOf(blocks[1].bytes) = AckLiteral => decoded[1].kind = "ACK"

(* The bytes of all blocks written, in order.                              *)
RECURSIVE StreamOf(_)
StreamOf(bs) == IF bs = <<>> THEN <<>> ELSE Head(bs).bytes \o StreamOf(Tail(bs))

(* The decoder was run on the whole of a stream of encoded messages.       *)
WholeStreamDecoded ==
  /\ last_decode.called
  /\ Len(blocks) >= 1
  /\ \A k \in 1..Len(blocks) : blocks[k].msg # None
  /\ last_decode.before = StreamOf(blocks)

(* C7: a message that was parsed or constructed, serialised and followed   *)
(* by any serialised message, parses back to the same message, and what    *)
(* is left is exactly the bytes of the message that followed.              *)
C7_RoundTrip ==
  WholeStreamDecoded =>
    /\ last_decode.res = "some"
    /\ last_decode.msg = blocks[1].msg
    /\ last_decode.after = StreamOf(Tail(blocks))

(* A block that parses as a whole, to its last byte.                       *)
ValidBlock(b) == parse_single_block(b).st = "ok" /\ parse_single_block(b).rest = <<>>

(* The decoder is run on bytes of the stream from its start while it has   *)
(* not returned a message yet, and the first block is a valid one.         *)
FirstBlockFed ==
  /\ last_decode.called
  /\ last_decode.index = 0
  /\ Len(blocks) >= 1
  /\ ValidBlock(blocks[1].bytes)

(* C8: run on a proper prefix of a valid block the decoder returns no      *)
(* message and leaves its buffer as it was; once the rest of the block has *)
(* arrived it returns the message the parser gives for the whole block and *)
(* removes exactly the bytes of the block from the buffer.                 *)
C8_IncrementalFeeding ==
  FirstBlockFed =>
    IF Len(last_decode.before) < Len(blocks[1].bytes)
    THEN /\ IsPrefix(last_decode.before, blocks[1].bytes)
         /\ last_decode.res = "none"
         /\ last_decode.after = last_decode.before
         /\ src = last_decode.before
    ELSE /\ IsPrefix(blocks[1].bytes, last_decode.before)
         /\ last_decode.res = "some"
         /\ last_decode.msg = Some(parse_single_block(blocks[1].bytes).out)
         /\ last_decode.after = Drop(last_decode.before, Len(blocks[1].bytes))
         /\ src = last_decode.after

(* A valid block completed after the decoder had been run on a non-empty   *)
(* proper prefix of it, with bytes of a second block behind it.            *)
C8_CompletedAfterPrefix ==
  /\ FirstBlockFed
  /\ last_decode.partial
  /\ last_decode.res = "some"
  /\ last_decode.after # <<>>

----------------------------------------------------------------------------
(* Properties of the client engine's read-through gets.                    *)

(* C9: a get that does not find its list in the cache, asked of a peer     *)
(* that stays connected and answers, eventually returns, however the steps *)
(* of the caller and of the session task interleave.                       *)
C9_ReadThroughReturns ==
  \A c \in Callers : (pc[c] = "send") ~> (pc[c] = "idle")

(* C10: a read-through get that receives Disconnected while it waits for   *)
(* its cache event has returned, with an error.                            *)
C10_DisconnectedFails ==
  \A c \in Callers :
    last_ev[c] = "Disconnected" =>
      (pc[c] = "idle" /\ result[c].status \notin {"ok", "none"})

----------------------------------------------------------------------------
(* The ends of the client session task.                                    *)

Disconnects == {k \in DOMAIN events : events[k] = "Disconnected"}

(* C11: whichever way the session task ends (peer closed, codec error,     *)
(* command channel closed), exactly one Disconnected cache event has been  *)
(* broadcast when it has ended.                                            *)
C11_DisconnectedOnce == session = "stopped" => Cardinality(Disconnects) = 1

(* A caller whose Ack command has not been answered: it waits on a reply   *)
(* slot that no ACK or NAK frame has resolved.                             *)
Unanswered(c) == pc[c] = "await" /\ slot[c] \notin {"true", "false"}

EndsUnanswered(c) ==
  session = "running" /\ session' = "stopped" /\ Unanswered(c) => slot'[c] = "dropped"

ResumesFalse(c) ==
  session = "stopped" /\ Unanswered(c) /\ pc'[c] = "idle"
    => result'[c].status = IF op[c].name = "is_alive" THEN "false" ELSE "nak"

(* C12: when the session task ends, every Ack command not yet answered,    *)
(* sent or still queued, has its reply slot dropped; its caller can resume *)
(* (no slot stays pending) and resumes with false: is_alive returns false, *)
(* update_* returns the NAK error, neither returns success.                *)
C12_UnansweredResolveFalse ==
  /\ [](session = "stopped" => \A c \in Callers : slot[c] # "pending")
  /\ [][\A c \in Callers : EndsUnanswered(c) /\ ResumesFalse(c)]_vars

C12_QueuedAndSentDropped ==
  /\ session = "stopped"
  /\ \E c, d \in Callers :
       /\ c # d
       /\ Unanswered(c) /\ slot[c] = "dropped"
       /\ \E k \in DOMAIN issued : issued[k].call = op[c].call
       /\ result[d].status \in {"false", "nak"} /\ pc[d] = "idle"
       /\ ~\E k \in DOMAIN issued : issued[k].call = op[d].call

----------------------------------------------------------------------------
(* The server's handlers, seen as steps of one connection.                 *)

(* The step is handle_connection reading a message on connection k: the    *)
(* record of what it handled grows by one entry.                           *)
Handles(k) == Len(conn'[k].handled) = Len(conn[k].handled) + 1

Entry(k) == conn'[k].handled[Len(conn'[k].handled)]

(* The step is handle_connection taking a RouterEvent on connection k.     *)
Takes(k) == conn'[k].rx = conn[k].rx + 1 /\ conn[k].phase = "loop"

Taken(k) == router_tx[conn[k].rx + 1]

SortedBy(list, key(_)) == \A i, j \in DOMAIN list : i < j => key(list[i]) <= key(list[j])

ToOutput(p) == p.to_output

IdOf(l) == l.id

SameEntries(a, b) ==
  /\ Len(a) = Len(b)
  /\ \E f \in [DOMAIN a -> DOMAIN b] :
       /\ \A i, j \in DOMAIN a : i # j => f[i] # f[j]
       /\ \A i \in DOMAIN a : a[i] = b[f[i]]

(* The patch of a change list that decides an output: its last for it.     *)
Decides(changes, i) ==
  \A j \in DOMAIN changes : j > i => changes[j].to_output # changes[i].to_output

Applies(before, after, changes) ==
  \A o \in DOMAIN after :
    IF \E i \in DOMAIN changes : changes[i].to_output = o - 1
    THEN \A i \in DOMAIN changes :
           changes[i].to_output = o - 1 /\ Decides(changes, i)
             => after[o] = [from_input |-> changes[i].from_input, to_output |-> o - 1]
    ELSE after[o] = before[o]

RouteRequest(k) ==
  Handles(k) /\ Entry(k).msg.kind = "VideoOutputRouting" /\ Entry(k).msg.v # <<>>
    /\ Entry(k).router_ok

RouteRequestServed(k) ==
  RouteRequest(k) =>
    /\ Applies(router.routes, router'.routes, Entry(k).msg.v)
    /\ conn'[k].sent = Append(conn[k].sent, Msg("ACK", <<>>))
    /\ router_tx' = Append(router_tx, RouterEventOf("RouteUpdate", FrontendIndex, router'.routes))
    /\ conn'[k].rx < Len(router_tx')
    /\ conn'[k].phase = "loop"

RouteUpdateForwarded(k) ==
  Takes(k) /\ Taken(k).kind = "RouteUpdate" /\ Taken(k).index = FrontendIndex =>
    /\ Len(conn'[k].sent) = Len(conn[k].sent) + 1
    /\ SubSeq(conn'[k].sent, 1, Len(conn[k].sent)) = conn[k].sent
    /\ conn'[k].sent[Len(conn'[k].sent)].kind = "VideoOutputRouting"
    /\ SortedBy(conn'[k].sent[Len(conn'[k].sent)].v, ToOutput)
    /\ SameEntries(conn'[k].sent[Len(conn'[k].sent)].v, Taken(k).list)

(* C13: a non-empty VideoOutputRouting that the router accepts is applied  *)
(* to the router's routes patch by patch, is answered with ACK, and makes  *)
(* the router emit a RouteUpdate that this connection has yet to take;     *)
(* when the connection takes a RouteUpdate of its matrix it sends a        *)
(* VideoOutputRouting with the event's entries ascending by to_output.     *)
C13_RouteUpdateEndToEnd ==
  [][\A k \in Conns : RouteRequestServed(k) /\ RouteUpdateForwarded(k)]_vars

C13_AckThenRouting ==
  \E k \in Conns : \E i \in DOMAIN conn[k].sent :
    /\ i + 1 \in DOMAIN conn[k].sent
    /\ conn[k].sent[i].kind = "ACK"
    /\ conn[k].sent[i + 1].kind = "VideoOutputRouting"
    /\ \E j \in DOMAIN conn[k].sent[i + 1].v :
         conn[k].sent[i + 1].v[j] = [from_input |-> 1, to_output |-> 2]
    /\ \E e \in DOMAIN conn[k].handled :
         /\ conn[k].handled[e].msg.kind = "VideoOutputRouting"
         /\ Len(conn[k].handled[e].msg.v) = 2

OtherRequest(k) == Handles(k) /\ Entry(k).msg.kind \notin ListKinds

(* C14: a message that is neither labels nor routing is answered with one  *)
(* message, ACK for Ping and NAK for every other kind, and leaves the      *)
(* router and its event channel as they were.                              *)
C14_OtherMessagesAnswered ==
  [][\A k \in Conns :
       OtherRequest(k) =>
         /\ conn'[k].sent = Append(conn[k].sent,
                                   Msg(IF Entry(k).msg.kind = "Ping" THEN "ACK" ELSE "NAK", <<>>))
         /\ router' = router
         /\ router_tx' = router_tx
         /\ conn'[k].phase = "loop"]_vars

C14_EveryKindAnswered ==
  \E k \in Conns :
    /\ Len(conn[k].handled) = 2
    /\ conn[k].handled[1].msg.kind = "Ping"
    /\ conn[k].handled[2].msg.kind = "UnknownMessage"
    /\ conn[k].sent[Len(conn[k].sent)].kind = "NAK"
    /\ conn[k].sent[Len(conn[k].sent) - 1].kind = "ACK"

ListRequest(k) == Handles(k) /\ Entry(k).msg.kind \in ListKinds /\ Entry(k).msg.v = <<>>

ListOf(st, kind) ==
  IF kind = "InputLabels" THEN st.input_labels
  ELSE IF kind = "OutputLabels" THEN st.output_labels
  ELSE st.routes

CountOf(st, kind) ==
  IF kind = "InputLabels" THEN st.matrix_info.input_count ELSE st.matrix_info.output_count

Reply(k) == conn'[k].sent[Len(conn'[k].sent)]

(* C15: an InputLabels, OutputLabels or VideoOutputRouting with an empty   *)
(* body is answered with one message of the same kind that holds the       *)
(* router's list whole (one entry per input or output), ascending by id or *)
(* by to_output, and the router is left as it was.                         *)
C15_EmptyBodyReadsList ==
  [][\A k \in Conns :
       ListRequest(k) =>
         /\ Len(conn'[k].sent) = Len(conn[k].sent) + 1
         /\ SubSeq(conn'[k].sent, 1, Len(conn[k].sent)) = conn[k].sent
         /\ Reply(k).kind = Entry(k).msg.kind
         /\ SameEntries(Reply(k).v, ListOf(router, Entry(k).msg.kind))
         /\ Len(Reply(k).v) = CountOf(router, Entry(k).msg.kind)
         /\ IF Entry(k).msg.kind = "VideoOutputRouting"
            THEN SortedBy(Reply(k).v, ToOutput) ELSE SortedBy(Reply(k).v, IdOf)
         /\ router' = router
         /\ router_tx' = router_tx]_vars

C15_ListReadAfterChange ==
  \E k \in Conns :
    /\ Len(conn[k].handled) = 2
    /\ conn[k].handled[1].msg = Msg("OutputLabels", <<[id |-> 2, name |-> <<"Y">>]>>)
    /\ conn[k].handled[2].msg = Msg("OutputLabels", <<>>)
    /\ conn[k].sent[Len(conn[k].sent)].kind = "OutputLabels"
    /\ conn[k].sent[Len(conn[k].sent)].v[3].name = <<"Y">>

(* C16: handle_event sends a message only for a RouteUpdate of the         *)
(* server's own matrix, a VideoOutputRouting with the event's patches      *)
(* ascending by to_output; for every other event nothing is sent.          *)
C16_OnlyOwnRouteUpdates ==
  [][\A k \in Conns :
       Takes(k) =>
         IF Taken(k).kind = "RouteUpdate" /\ Taken(k).index = FrontendIndex
         THEN /\ conn'[k].sent = Append(conn[k].sent, Reply(k))
              /\ Reply(k).kind = "VideoOutputRouting"
              /\ SortedBy(Reply(k).v, ToOutput)
              /\ SameEntries(Reply(k).v, Taken(k).list)
         ELSE conn'[k].sent = conn[k].sent]_vars

C16_ForeignPassedOwnSorted ==
  \E k \in Conns :
    /\ conn[k].rx = 2
    /\ router_tx[1] = RouterEventOf("RouteUpdate", FrontendIndex + 1, DummyInit.routes)
    /\ router_tx[2].kind = "RouteUpdate" /\ router_tx[2].index = FrontendIndex
    /\ router_tx[2].list[1].to_output = 2
    /\ Len(conn[k].sent) = 7
    /\ conn[k].sent[7] = Msg("VideoOutputRouting",
                             <<[from_input |-> 0, to_output |-> 0],
                               [from_input |-> 1, to_output |-> 2]>>)

----------------------------------------------------------------------------
(* connect().                                                              *)

FramesOf(kind) == {i \in DOMAIN connect.frames : connect.frames[i].kind = kind}

LastDeviceInfo == connect.frames[CHOOSE i \in FramesOf("DeviceInfo") :
                                   \A j \in FramesOf("DeviceInfo") : j <= i].v[1]

LacksCount(di) == di.video_inputs = None \/ di.video_outputs = None

HandleReturned ==
  connect.state = "ok" =>
    /\ FramesOf("Preamble") # {}
    /\ FramesOf("DeviceInfo") # {}
    /\ ~LacksCount(LastDeviceInfo)
    /\ connect.matrix_info = [input_count |-> LastDeviceInfo.video_inputs[1],
                              output_count |-> LastDeviceInfo.video_outputs[1]]

ErrorReturned ==
  /\ connect.spawned <=> connect.state = "ok"
  /\ (\E i \in FramesOf("DeviceInfo") : LacksCount(connect.frames[i].v[1]))
       => connect.state = "err"

(* The loop leaves on a stream that has ended or failed only with an error *)
EndsInError ==
  connect.state = "reading" /\ connect'.state # "reading" /\ decode(hello).res # "some"
    => connect'.state = "err" /\ ~connect'.spawned

(* C17: connect returns a handle, with the session task spawned, only when *)
(* a Preamble and a DeviceInfo were read, in whichever order, and caches   *)
(* the counts of the DeviceInfo it read last; it returns an error and      *)
(* spawns nothing when a DeviceInfo read lacks a count, and when the       *)
(* stream ends or fails before both were read.                             *)
C17_ConnectHandshake ==
  /\ [](HandleReturned /\ ErrorReturned)
  /\ [][EndsInError]_vars

C17_DeviceInfoThenPreamble ==
  /\ connect.state = "ok"
  /\ Len(connect.frames) = 3
  /\ connect.frames[1].kind = "DeviceInfo"
  /\ connect.frames[2].kind = "InputLabels"
  /\ connect.frames[3].kind = "Preamble"
  /\ connect.matrix_info = [input_count |-> VideoInputs, output_count |-> VideoOutputs]

----------------------------------------------------------------------------
(* The handle's cache.                                                     *)

(* C18: update_output_labels answered with ACK merges its changes into the *)
(* cached output labels and leaves the cached input labels as they were.   *)
C18_OutputLabelsMerged ==
  [][\A c \in Callers :
       (Returns(c, "await") /\ op[c].name = "update_output_labels" /\ slot[c] = "true") =>
         /\ Reflects(cache'.output_labels, op[c].changed)
         /\ cache'.input_labels = cache.input_labels]_vars

GetNames == {"get_input_labels", "get_output_labels", "get_routes"}

KeyOf(kind, entry) == IF kind = "VideoOutputRouting" THEN entry.to_output ELSE entry.id

WholeList(kind, list) ==
  /\ Len(list) = IF kind = "InputLabels" THEN VideoInputs ELSE VideoOutputs
  /\ {KeyOf(kind, list[i]) : i \in DOMAIN list}
       = 0..((IF kind = "InputLabels" THEN VideoInputs ELSE VideoOutputs) - 1)

(* C19: a list that get_input_labels, get_output_labels or get_routes      *)
(* returns has one entry for every input, respectively every output, of    *)
(* the peer's matrix.                                                      *)
C19_GetReturnsWholeList ==
  \A c \in Callers :
    (pc[c] = "idle" /\ op[c].name \in GetNames /\ result[c].status = "ok")
      => WholeList(op[c].kind, result[c].value)

----------------------------------------------------------------------------
(* The handle's event stream.                                              *)

RouterEventKind(ev) ==
  IF ev = "InputLabels" THEN "InputLabelUpdate"
  ELSE IF ev = "OutputLabels" THEN "OutputLabelUpdate"
  ELSE IF ev = "Routes" THEN "RouteUpdate"
  ELSE "Disconnected"

(* The stream has yielded, in order, one RouterEvent of matrix 0 for each  *)
(* cache event published since it was made.                                *)
YieldsEachEvent ==
  stream_rx # None =>
    /\ Len(stream_out) <= stream_rx[1]
    /\ \A i \in DOMAIN stream_out :
         /\ stream_out[i].kind
              = RouterEventKind(events[stream_rx[1] - Len(stream_out) + i])
         /\ stream_out[i].index = 0

(* Nothing is in flight and the stream has yielded all that was published. *)
StreamDrained ==
  /\ stream_rx # None /\ stream_rx[1] = Len(events)
  /\ session = "running"
  /\ net_in = <<>> /\ net_out = <<>> /\ cmd_queue = <<>>
  /\ \A c \in Callers : pc[c] = "idle"

(* C20: the event stream yields the matching RouterEvent of matrix 0 for   *)
(* each cache event, and once a route change of the peer's router has come *)
(* through, the RouteUpdate yielded last lists the changed patch.          *)
C20_RouteUpdateReachesStream ==
  /\ YieldsEachEvent
  /\ (StreamDrained /\ notified # <<>> /\ stream_out # <<>>
        /\ stream_out[Len(stream_out)].kind = "RouteUpdate")
       => \E j \in DOMAIN stream_out[Len(stream_out)].list :
            stream_out[Len(stream_out)].list[j] = notified[Len(notified)]

----------------------------------------------------------------------------
(* is_alive.                                                               *)

(* C21: every call of is_alive returns: a caller that has begun the call   *)
(* is idle again later, whatever the peer does.                            *)
C21_IsAliveReturns ==
  \A c \in Callers : (pc[c] \in {"request", "await"} /\ op[c].name = "is_alive") ~> pc[c] = "idle"

----------------------------------------------------------------------------
(* The DummyRouter behind the MatrixRouter interface.                      *)

LabelOutOfRange(count) == \E i \in DOMAIN last_call.changed : last_call.changed[i].id >= count

PatchOutOfRange ==
  \E i \in DOMAIN last_call.changed :
    \/ last_call.changed[i].from_input >= last_call.router.matrix_info.input_count
    \/ last_call.changed[i].to_output >= last_call.router.matrix_info.output_count

(* C22: on the DummyRouter, a label update that names an id at or above    *)
(* the count of inputs, respectively outputs, a route update that names an *)
(* input or output at or above its count, and every get or update for a    *)
(* matrix index at or above the number of matrices return an error.        *)
C22_OutOfRangeIsError ==
  /\ (last_call.name = "update_input_labels"
        /\ LabelOutOfRange(last_call.router.matrix_info.input_count)) => ~last_call.ok
  /\ (last_call.name = "update_output_labels"
        /\ LabelOutOfRange(last_call.router.matrix_info.output_count)) => ~last_call.ok
  /\ (last_call.name = "update_routes" /\ PatchOutOfRange) => ~last_call.ok
  /\ (last_call.name # "none" /\ last_call.index >= MatrixCount) => ~last_call.ok

C22_EachErrorSeen ==
  /\ last_call.n = 3
  /\ last_call.name = "get_routes" /\ last_call.index = MatrixCount /\ ~last_call.ok
  /\ router.routes[1].from_input = 1
  /\ router.output_labels[3].name = <<"Y">>
  /\ router.input_labels = DummyInit.input_labels

FieldOf(name) ==
  IF name = "update_input_labels" THEN "input_labels"
  ELSE IF name = "update_output_labels" THEN "output_labels"
  ELSE "routes"

EventOf(name) ==
  IF name = "update_input_labels" THEN "InputLabelUpdate"
  ELSE IF name = "update_output_labels" THEN "OutputLabelUpdate"
  ELSE "RouteUpdate"

KeyIn(name, entry) == IF name = "update_routes" THEN entry.to_output ELSE entry.id

(* The entries of a change list that are the last for their id or output   *)
(* are in the list a get returns.                                          *)
GetReturnsChanges(name, changed, got) ==
  /\ got.ok
  /\ \A i \in DOMAIN changed :
       (\A j \in DOMAIN changed : j > i => KeyIn(name, changed[j]) # KeyIn(name, changed[i]))
         => \E k \in DOMAIN got.value : got.value[k] = changed[i]

Announced(name) ==
  /\ router_tx = Append(last_call.router_tx,
                        RouterEventOf(EventOf(name), last_call.index, router[FieldOf(name)]))
  /\ GetReturnsChanges(name, last_call.changed,
                       dummy_get(router, last_call.index, FieldOf(name)))

(* C23 as stated: every update that returns Ok has sent the event of its   *)
(* kind with the list as it is after the update, and a get that follows    *)
(* returns the changed entries.                                            *)
C23_EverySuccessAnnounced ==
  (last_call.name \in UpdateNames /\ last_call.ok) => Announced(last_call.name)

(* C23: every update with at least one change that returns Ok has sent the *)
(* event of its kind for that matrix with the list as it is after the      *)
(* update, and a get that follows returns the changed entries.             *)
C23_ChangeAnnounced ==
  (last_call.name \in UpdateNames /\ last_call.ok /\ last_call.changed # <<>>)
    => Announced(last_call.name)

C23_TwoChangesAnnounced ==
  /\ last_call.name = "update_routes" /\ last_call.ok /\ Len(last_call.changed) = 2
  /\ last_call.n = 2
  /\ Len(router_tx) = 2
  /\ router_tx[1].kind = "OutputLabelUpdate"
  /\ router_tx[2].list[3].from_input = 1

(* ---- Parser claims: the input is one block unless said otherwise ------ *)

SingleParsed == parsed.fn = "parse_single_block" /\ Len(wire) = 1

(* The block of the input as it was before its letters were lowered.       *)
Original == Rendered([wire[1] EXCEPT !.lower = FALSE])

ValidOriginal == parse_single_block(Original).st = "ok"

LowerOpt(o) == [k \in 1..Len(o) |-> to_ascii_lowercase(o[k])]

LowerDeviceInfo(di) ==
  [di EXCEPT !.model_name = LowerOpt(@), !.friendly_name = LowerOpt(@),
             !.unique_id = LowerOpt(@),
             !.unknown_fields =
               [k \in 1..Len(@) |->
                 [j \in 1..Len(@[k]) |-> [key |-> to_ascii_lowercase(@[k][j].key),
                                          value |-> to_ascii_lowercase(@[k][j].value)]]]]

(* The message with the letters of its free text lowered: names, versions, *)
(* values, the bytes of an unknown port type and of an unknown block. What *)
(* the parser matches against a keyword is left as it is.                  *)
LowerMessage(m) ==
  IF m.kind = "Preamble" THEN Msg(m.kind, to_ascii_lowercase(m.v))
  ELSE IF m.kind = "DeviceInfo" THEN Msg(m.kind, <<LowerDeviceInfo(m.v[1])>>)
  ELSE IF m.kind \in LabelKinds
    THEN Msg(m.kind, [k \in 1..Len(m.v) |-> [m.v[k] EXCEPT !.name = to_ascii_lowercase(@)]])
  ELSE IF m.kind \in StatusKinds
    THEN Msg(m.kind, [k \in 1..Len(m.v) |->
                       [m.v[k] EXCEPT !.port_type.s = to_ascii_lowercase(@)]])
  ELSE IF m.kind = "Configuration"
    THEN Msg(m.kind, [k \in 1..Len(m.v) |->
                       [setting |-> to_ascii_lowercase(m.v[k].setting),
                        value |-> to_ascii_lowercase(m.v[k].value)]])
  ELSE IF m.kind = "AlarmStatus"
    THEN Msg(m.kind, [k \in 1..Len(m.v) |->
                       [name |-> to_ascii_lowercase(m.v[k].name),
                        status |-> to_ascii_lowercase(m.v[k].status)]])
  ELSE IF m.kind = "UnknownMessage"
    THEN Msg(m.kind, <<to_ascii_lowercase(m.v[1]), to_ascii_lowercase(m.v[2])>>)
  ELSE m

(* C24 as stated: parsing a valid block with every ASCII letter lowered    *)
(* yields the same message as parsing the block itself.                    *)
C24_LoweredParsesSame ==
  (SingleParsed /\ wire[1].lower /\ ValidOriginal)
    => /\ parsed.result.st = "ok"
       /\ parsed.result.out = parse_single_block(Original).out

(* C24: parsing a valid block with every ASCII letter lowered succeeds and *)
(* yields the message of the block itself with the letters of its free     *)
(* text lowered: headers, keys and keywords are matched in either case.    *)
C24_LoweredParsesSameKeywords ==
  (SingleParsed /\ wire[1].lower /\ ValidOriginal)
    => /\ parsed.result.st = "ok"
       /\ parsed.result.out = LowerMessage(parse_single_block(Original).out)

(* A lowered block whose header, keys and keywords had upper-case letters  *)
(* was parsed into a message that has free text.                           *)
C24_LoweredStatusParsed ==
  /\ SingleParsed /\ wire[1].lower /\ ValidOriginal
  /\ parsed.result.st = "ok"
  /\ parsed.result.out.kind = "VideoInputStatus"
  /\ parsed.result.out # parse_single_block(Original).out
  /\ Original # parsed.input

(* The header of the input's block is none of the headers the parser knows *)
(* in either case.                                                         *)
UnknownHeader ==
  \A k \in KnownKinds : to_ascii_uppercase(wire[1].lines[1]) # HeaderLiteral(k)

(* Every line of the block ends the same way.                              *)
UniformEndings(e) == e.crlf = {} \/ e.crlf = 1..Len(e.lines)

Reparsed(m) == parse_single_block(write_serialized(m))

(* C25: a block with an unknown header never makes the parser return an    *)
(* error; it is parsed into UnknownMessage(header, body) with the bytes of *)
(* its header line, and writing that message and parsing it again yields   *)
(* the same header and body, also when the body is empty.                  *)
C25_UnknownPreserved ==
  (SingleParsed /\ UnknownHeader)
    => /\ parsed.result.st # "error"
       /\ UniformEndings(wire[1]) => parsed.result.st = "ok"
       /\ parsed.result.st = "ok"
            => /\ parsed.result.out.kind = "UnknownMessage"
               /\ parsed.result.out.v[1] \o <<"\n">> =
                    Rendered([wire[1] EXCEPT !.lines = <<@[1]>>, !.crlf = {}])
               /\ Reparsed(parsed.result.out).st = "ok"
               /\ Reparsed(parsed.result.out).out = parsed.result.out

(* An unknown block with an empty body, its lines ended by CRLF, was       *)
(* parsed, and the message written and parsed again is the same.           *)
C25_EmptyUnknownParsed ==
  /\ SingleParsed /\ UnknownHeader /\ parsed.result.st = "ok"
  /\ parsed.result.out.v[2] = <<"\r", "\n">>
  /\ Reparsed(parsed.result.out).out = parsed.result.out

(* The input with every line ended by LF.                                  *)
AllLf(w) == [k \in 1..Len(w) |-> [w[k] EXCEPT !.crlf = {}]]

(* C26: whichever lines of a valid input end in CRLF instead of LF, be it  *)
(* all of them or some (header, body or the blank line), parse_all_blocks  *)
(* returns the same message stream as for the input with LF throughout.    *)
C26_LineEndingsInterchangeable ==
  (parsed.fn = "parse_all_blocks" /\ parse_all_blocks(WireBytes(AllLf(wire))).st = "ok")
    => /\ parsed.result.st = "ok"
       /\ parsed.result.out = parse_all_blocks(WireBytes(AllLf(wire))).out

DeviceInfoParsed ==
  /\ SingleParsed /\ parsed.result.st = "ok" /\ parsed.result.out.kind = "DeviceInfo"

(* The value of the line of the block that starts with the key, if any.    *)
ValueOf(lines, key) ==
  [k \in 1..Len(SelectSeq(lines, LAMBDA l : IsPrefix(key \o <<":", " ">>, l))) |->
     Drop(SelectSeq(lines, LAMBDA l : IsPrefix(key \o <<":", " ">>, l))[k], Len(key) + 2)]

FriendlyNameKey == <<"F","r","i","e","n","d","l","y"," ","n","a","m","e">>
UniqueIdKey == <<"U","n","i","q","u","e"," ","I","D">>

(* C27: a parsed VIDEOHUB DEVICE block has the value of its 'Friendly      *)
(* name' line in friendly_name and the value of its 'Unique ID' line in    *)
(* unique_id, and nothing in either field when the line is absent.         *)
C27_DeviceInfoKeysMapped ==
  (DeviceInfoParsed /\ ~wire[1].lower)
    => /\ parsed.result.out.v[1].friendly_name = ValueOf(wire[1].lines, FriendlyNameKey)
       /\ parsed.result.out.v[1].unique_id = ValueOf(wire[1].lines, UniqueIdKey)

(* The digits of u32::MAX + 1.                                             *)
OverflowDigits == <<"4","2","9","4","9","6","7","2","9","6">>

RECURSIVE Contains(_, _)
Contains(s, sub) ==
  Len(sub) <= Len(s) /\ (IsPrefix(sub, s) \/ Contains(Tail(s), sub))

(* A line of the block holds a number beyond the u32 range.                *)
HasOverflow(lines) == \E k \in 1..Len(lines) : Contains(lines[k], OverflowDigits)

(* C28: a block of a known kind with a number beyond the u32 range, in a   *)
(* DeviceInfo count, a label id, a route, a lock id or a status id, makes  *)
(* parse_single_block return Error.                                        *)
C28_OverflowIsError ==
  (SingleParsed /\ HasOverflow(wire[1].lines) /\ UniformEndings(wire[1]))
    => parsed.result.st = "error"

(* Block k of the input on its own, and with LF at the end of every line.  *)
Alone(k) == parse_single_block(Rendered(wire[k]))
AloneLf(k) == parse_single_block(Rendered(AllLf(wire)[k]))

(* The message of block k: the one the parser returns for the block alone. *)
Expected(k) == IF Alone(k).st = "ok" THEN Alone(k).out ELSE AloneLf(k).out

AllParsed == parsed.fn = "parse_all_blocks"

(* C29: parse_all_blocks on an input of n complete blocks returns the n    *)
(* messages of the blocks in the order of the input, with nothing left.    *)
C29_AllBlocksInOrder ==
  (AllParsed /\ \A k \in 1..Len(wire) : AloneLf(k).st = "ok")
    => /\ parsed.result.st = "ok"
       /\ parsed.result.rest = <<>>
       /\ parsed.result.out = [k \in 1..Len(wire) |-> Expected(k)]

(* The label blocks the session task has read so far: it publishes one     *)
(* event for each.                                                         *)
LabelsRead == SubSeq(notified, 1, Len(events))

CacheField(kind) == IF kind = "InputLabels" THEN "input_labels" ELSE "output_labels"

Dimension(kind) ==
  IF kind = "InputLabels" THEN cache.matrix_info.input_count ELSE cache.matrix_info.output_count

(* The label overwrites the one with its id, or is appended.               *)
Upsert(list, e) ==
  IF \E k \in 1..Len(list) : list[k].id = e.id
  THEN [k \in 1..Len(list) |-> IF list[k].id = e.id THEN e ELSE list[k]]
  ELSE Append(list, e)

(* The sparse, bounded merge: entries at or above the dimension are        *)
(* dropped, the others merged by id, everything else kept.                 *)
RECURSIVE SparseMerge(_, _, _)
SparseMerge(list, changes, dim) ==
  IF changes = <<>> THEN list
  ELSE SparseMerge(IF Head(changes).id < dim THEN Upsert(list, Head(changes)) ELSE list,
                   Tail(changes), dim)

RECURSIVE MergedAll(_, _, _, _)
MergedAll(list, messages, kind, dim) ==
  IF messages = <<>> THEN list
  ELSE MergedAll(IF Head(messages).kind = kind THEN SparseMerge(list, Head(messages).v, dim)
                 ELSE list,
                 Tail(messages), kind, dim)

(* C30: once the session task has read inbound InputLabels / OutputLabels  *)
(* blocks, the cached list is the sparse merge of them in order: entries   *)
(* below the dimension overwrite or append by id, entries at or above it   *)
(* are dropped, labels not named stay; a block with an over-range id does  *)
(* not empty the list.                                                     *)
C30_InboundLabelsMerged ==
  \A kind \in {"InputLabels", "OutputLabels"} :
    (\E k \in 1..Len(LabelsRead) : LabelsRead[k].kind = kind)
      => cache[CacheField(kind)] = Some(MergedAll(<<>>, LabelsRead, kind, Dimension(kind)))

----------------------------------------------------------------------------
(* Claims C31..C40.                                                        *)

(* The blocks the session task has read so far, of any kind: it publishes  *)
(* one event for each label or routing block.                              *)
BlocksRead == SubSeq(notified, 1, Len(events))

RoutingsRead == SelectSeq(BlocksRead, LAMBDA m : m.kind = "VideoOutputRouting")

(* A patch is within the matrix: each coordinate below its own dimension.  *)
WithinMatrix(p) ==
  p.from_input < cache.matrix_info.input_count /\ p.to_output < cache.matrix_info.output_count

(* The last routing block read had one patch.                              *)
OnePatchRead ==
  /\ RoutingsRead # <<>>
  /\ BlocksRead[Len(BlocksRead)].kind = "VideoOutputRouting"
  /\ Len(BlocksRead[Len(BlocksRead)].v) = 1

LastPatch == BlocksRead[Len(BlocksRead)].v[1]

(* C31: the patch of an inbound VideoOutputRouting is in the route cache   *)
(* afterwards if and only if from_input < input_count and to_output <      *)
(* output_count.                                                           *)
C31_PatchAcceptedIffWithin ==
  OnePatchRead =>
    (WithinMatrix(LastPatch) <=>
       (cache.routes # None /\ \E k \in 1..Len(cache.routes[1]) : cache.routes[1][k] = LastPatch))

(* The caller's update call has returned Ok: the ACK came and the change   *)
(* was merged into the cache.                                              *)
UpdateMerged(c) ==
  pc[c] = "idle" /\ op[c].name \in UpdateNames /\ result[c].status = "ok"

(* C32: once an update_input_labels / update_output_labels / update_routes *)
(* call on the handle has been acknowledged and merged, the cache event of *)
(* its list (InputLabels / OutputLabels / Routes) has been published.      *)
C32_WriteThroughPublishes ==
  \A c \in Callers :
    UpdateMerged(c) => \E k \in 1..Len(events) : events[k] = WantOf(op[c])

(* The cache as connect() leaves it.                                       *)
ConnectedCache ==
  [info |-> [model |-> None, name |-> None],
   matrix_info |-> [input_count |-> VideoInputs, output_count |-> VideoOutputs],
   input_labels |-> None, output_labels |-> None, routes |-> None]

(* The cache once the merges of the first j inbound blocks are applied.    *)
RECURSIVE CacheAfter(_)
CacheAfter(j) ==
  IF j = 0 THEN ConnectedCache ELSE Inbound(CacheAfter(j - 1), notified[j]).cache

(* The event the stream yielded as its i-th is the k-th event published.   *)
EventIndex(i) == stream_rx[1] - Len(stream_out) + i

(* Some state of the cache with the merge of block k applied.              *)
SeenSince(k, seen(_)) == \E j \in k..Len(events) : seen(CacheAfter(j))

StreamSeesMerged ==
  \A i \in 1..Len(stream_out) :
    SeenSince(EventIndex(i),
              LAMBDA c : stream_out[i] = RouterEventFor(c, events[EventIndex(i)]))

(* The caller's get_* has returned after waiting for its event.            *)
ReadAfterEvent(c) ==
  pc[c] = "idle" /\ result[c].status = "ok" /\ last_ev[c] = WantOf(op[c])

GetSeesMerged ==
  \A c \in Callers :
    ReadAfterEvent(c) =>
      SeenSince(rx[c], LAMBDA ch : Some(result[c].value) = get_cached(ch, op[c].kind))

(* C33: a reader that has observed the cache event of an inbound block     *)
(* and then reads the cache, through event_stream or through get_*, sees   *)
(* the cache with that block's merge applied, never the state before it.   *)
C33_ReaderSeesMergedCache == StreamSeesMerged /\ GetSeesMerged

(* The stream has yielded the events of two blocks with the lists after    *)
(* each, and a get_* has returned the list after waiting for its event.    *)
C33_BothReadersRead ==
  /\ Len(stream_out) = 2
  /\ stream_out[1].kind = "InputLabelUpdate" /\ stream_out[2].kind = "InputLabelUpdate"
  /\ Len(stream_out[2].list) = 2
  /\ \E c \in Callers : ReadAfterEvent(c) /\ rx[c] = 2 /\ Len(result[c].value) = 2

(* The lines of the input's block as they are on the wire.                 *)
WireLines ==
  [k \in 1..Len(wire[1].lines) |->
     IF wire[1].lower THEN to_ascii_lowercase(wire[1].lines[k]) ELSE wire[1].lines[k]]

(* The body lines of the block: all but the header and the blank line.     *)
BodyLines == SubSeq(WireLines, 2, Len(WireLines) - 1)

(* A status block with one-digit ids was parsed.                           *)
StatusParsed ==
  /\ SingleParsed /\ UniformEndings(wire[1])
  /\ parsed.result.st = "ok" /\ parsed.result.out.kind \in StatusKinds
  /\ \A k \in 1..Len(BodyLines) : Len(BodyLines[k]) > 2 /\ BodyLines[k][2] = " "

(* The port type a token stands for: the typed variant whose name it is    *)
(* in any letter case, else Other with the token as received.              *)
PortFor(token, named) ==
  IF named = {} THEN Port("Other", token) ELSE Port(CHOOSE p \in named : TRUE, <<>>)

ExpectedPort(token) ==
  PortFor(token, {p \in TypedPorts :
                    to_ascii_lowercase(token) = to_ascii_lowercase(PortTypeDebug(p))})

(* C34: each line '<id> <token>' of a status block parses to the typed     *)
(* variant named by the token in any letter case (None, BNC, Optical,      *)
(* Thunderbolt, RS422), and to Other(token) for any other token.           *)
C34_StatusTokensMapped ==
  StatusParsed =>
    /\ Len(parsed.result.out.v) = Len(BodyLines)
    /\ \A k \in 1..Len(BodyLines) :
         parsed.result.out.v[k].port_type = ExpectedPort(Drop(BodyLines[k], 2))

(* A connection that has subscribed to the router's events and is open.    *)
Subscribed(j) == conn[j].phase \in {"dump", "loop"}

(* An accepted route change on connection k is broadcast, and every other  *)
(* subscribed connection has the event still to take.                      *)
RouteChangeReachesOthers(k) ==
  RouteRequest(k) =>
    /\ router_tx' = Append(router_tx, RouterEventOf("RouteUpdate", FrontendIndex, router'.routes))
    /\ \A j \in Conns \ {k} : Subscribed(j) => conn'[j].rx < Len(router_tx')

(* The reply to a message is sent on the connection that read it, and on   *)
(* no other.                                                               *)
RepliedOnOwnConnection(k) ==
  Handles(k) =>
    /\ conn'[k].sent = conn[k].sent \o Entry(k).reply
    /\ \A j \in Conns \ {k} : conn'[j].sent = conn[j].sent

(* The accepted route changes handled so far, of all connections.          *)
AcceptedPatches ==
  UNION {{[k |-> k, e |-> e, p |-> conn[k].handled[e].msg.v[i]] :
            i \in DOMAIN conn[k].handled[e].msg.v} :
         <<k, e>> \in {x \in Conns \X (1..MaxRequests) :
                         /\ x[2] \in DOMAIN conn[x[1]].handled
                         /\ conn[x[1]].handled[x[2]].msg.kind = "VideoOutputRouting"
                         /\ conn[x[1]].handled[x[2]].router_ok}}

(* A change of an output that no other handled change names is in effect.  *)
DistinctOutputsInEffect ==
  \A a \in AcceptedPatches :
    (\A b \in AcceptedPatches : b # a => b.p.to_output # a.p.to_output)
      => router.routes[a.p.to_output + 1] = a.p

(* C35: with two clients on one server, an accepted route change made on   *)
(* one connection is broadcast so that the other connection has it to      *)
(* take, and a connection that takes it sends it as VideoOutputRouting;    *)
(* changes of distinct outputs by the two clients are both in effect in    *)
(* the router; each reply is sent only on the connection that was asked.   *)
C35_TwoClients ==
  /\ []DistinctOutputsInEffect
  /\ [][\A k \in Conns : /\ RouteChangeReachesOthers(k)
                         /\ RouteUpdateForwarded(k)
                         /\ RepliedOnOwnConnection(k)]_vars

(* Each of the two clients has changed one output, both changes are in     *)
(* effect, and each connection has sent one ACK and then both route        *)
(* updates.                                                                *)
C35_BothChangesForwarded ==
  /\ router.routes[1].from_input = 1 /\ router.routes[3].from_input = 1
  /\ \A k \in Conns :
       /\ Len(conn[k].handled) = 1
       /\ conn[k].handled[1].msg.kind = "VideoOutputRouting"
       /\ conn[k].rx = 2
       /\ Len(SelectSeq(conn[k].sent, LAMBDA m : m.kind = "ACK")) = 1
       /\ conn[k].sent[Len(conn[k].sent)].kind = "VideoOutputRouting"
       /\ conn[k].sent[Len(conn[k].sent)].v[1].from_input = 1
       /\ conn[k].sent[Len(conn[k].sent)].v[3].from_input = 1

CacheLists == {"input_labels", "output_labels", "routes"}

(* The key of a cached entry: the id of a label, the output of a patch.    *)
EntryKey(e) == IF "id" \in DOMAIN e THEN e.id ELSE e.to_output

UniqueKeys(list) ==
  \A i, j \in 1..Len(list) : EntryKey(list[i]) = EntryKey(list[j]) => i = j

(* An entry of the list with a key the changes name is the last change     *)
(* with that key.                                                          *)
LastWins(list, changes) ==
  \A k \in 1..Len(list), i \in 1..Len(changes) :
    (/\ EntryKey(list[k]) = EntryKey(changes[i])
     /\ \A j \in (i + 1)..Len(changes) : EntryKey(changes[j]) # EntryKey(changes[i]))
      => list[k] = changes[i]

(* The changes merged in this step: the block the session task read, or    *)
(* the list of the update that returns.                                    *)
ChangesMerged ==
  IF events' # events THEN notified[Len(events')].v
  ELSE IF \E c \in Callers : Returns(c, "resume")
  THEN op[CHOOSE c \in Callers : Returns(c, "resume")].changed
  ELSE <<>>

(* C36: each populated cache list holds at most one entry per id (labels)  *)
(* or per to_output (routes); in a list that a block or an update changes, *)
(* an entry with a key the block or update names carries its last          *)
(* occurrence.                                                             *)
C36_OneEntryPerKey ==
  /\ [](\A f \in CacheLists : cache[f] # None => UniqueKeys(cache[f][1]))
  /\ [][\A f \in CacheLists :
          (cache'[f] # cache[f] /\ cache'[f] # None)
            => LastWins(cache'[f][1], ChangesMerged)]_vars

(* Blocks and an update that repeat a key have been merged: the cache      *)
(* holds one entry for each repeated key, the last one.                    *)
C36_RepeatsMerged ==
  /\ Len(events) = 2
  /\ notified[1].kind = "InputLabels" /\ Len(notified[1].v) = 3
  /\ notified[2].kind = "VideoOutputRouting"
  /\ \E c \in Callers : pc[c] = "idle" /\ op[c].name = "update_routes" /\ result[c].status = "ok"
  /\ cache.input_labels = Some(<<[id |-> 0, name |-> <<"C">>], [id |-> 1, name |-> <<"B">>]>>)
  /\ cache.routes = Some(<<[from_input |-> 0, to_output |-> 1], [from_input |-> 0, to_output |-> 0]>>)

(* The labels of a matrix side: one per port, the k-th with id k.          *)
LabelsInShape(list, count) ==
  /\ Len(list) = count
  /\ \A k \in 1..Len(list) : list[k].id = k - 1

(* C37: after any sequence of calls on the DummyRouter, failed ones        *)
(* included, the route list has output_count entries, the k-th with        *)
(* to_output = k and a from_input below input_count, and the input and     *)
(* output label lists have input_count and output_count entries, the k-th  *)
(* with id = k (k counted from 0).                                         *)
C37_DummyRouterInShape ==
  /\ Len(router.routes) = router.matrix_info.output_count
  /\ \A k \in 1..Len(router.routes) :
       /\ router.routes[k].to_output = k - 1
       /\ router.routes[k].from_input < router.matrix_info.input_count
  /\ LabelsInShape(router.input_labels, router.matrix_info.input_count)
  /\ LabelsInShape(router.output_labels, router.matrix_info.output_count)

(* A label update failed at its second change, after a route update and an *)
(* output label update that changed the router.                            *)
C37_ChangedAndRefused ==
  /\ last_call.n = MaxRouterCalls
  /\ last_call.name = "update_input_labels" /\ ~last_call.ok /\ Len(last_call.changed) = 2
  /\ router.routes[3].from_input = 1
  /\ router.output_labels[2].name = <<"X">>

(* C38: an update call on the DummyRouter that returns an error leaves the *)
(* labels and routes as they were before the call and broadcasts no event, *)
(* also when changes in range precede the one out of range.                *)
C38_RefusedUpdateChangesNothing ==
  (last_call.name \in {"update_input_labels", "update_output_labels", "update_routes"}
     /\ ~last_call.ok)
    => router = last_call.router /\ router_tx = last_call.router_tx

PreludeEnded(k) == \E i \in 1..Len(conn[k].sent) : conn[k].sent[i].kind = "EndPrelude"

(* The dump of connection k has read the routes: its routing block is sent. *)
SnapshotSent(k) == \E i \in 1..Len(conn[k].sent) : conn[k].sent[i].kind = "VideoOutputRouting"

(* The routes of a client that merges each routing block it is sent, the   *)
(* dump's and the notifications', by to_output.                            *)
RECURSIVE ClientRoutes(_, _)
ClientRoutes(list, messages) ==
  IF messages = <<>> THEN list
  ELSE ClientRoutes(IF Head(messages).kind = "VideoOutputRouting"
                    THEN update_routes(Some(list), Head(messages).v,
                                       VideoInputs, VideoOutputs).opt[1]
                    ELSE list,
                    Tail(messages))

(* A subscribed connection takes the events one by one, and none while the *)
(* dump is being sent; the one it takes is sent after EndPrelude.          *)
EventsKeptForLoop(k) ==
  /\ Subscribed(k) => conn'[k].rx \in {conn[k].rx, conn[k].rx + 1}
  /\ (conn[k].phase # "new" /\ conn'[k].rx # conn[k].rx) => PreludeEnded(k)

SentGrows(k) ==
  /\ Len(conn'[k].sent) >= Len(conn[k].sent)
  /\ SubSeq(conn'[k].sent, 1, Len(conn[k].sent)) = conn[k].sent

(* The step that serves an accepted route change writes the ACK and         *)
(* nothing else, and leaves the RouteUpdate it caused to be taken.         *)
AckWrittenFirst(k) ==
  RouteRequest(k) =>
    /\ conn'[k].sent = Append(conn[k].sent, Msg("ACK", <<>>))
    /\ Len(router_tx') = Len(router_tx) + 1
    /\ conn'[k].rx < Len(router_tx')

(* The routing block of an event is written by the step that takes it.     *)
BlockWrittenWhenTaken(k) ==
  Takes(k) =>
    /\ conn'[k].sent = conn[k].sent \o handle_event(Taken(k))
    /\ Taken(k).kind = "RouteUpdate" => handle_event(Taken(k)) # <<>>

(* C40: on the connection that sent a non-empty VideoOutputRouting the ACK *)
(* is written before the VIDEO OUTPUT ROUTING block that forwards the      *)
(* RouteUpdate of the same change: the ACK is appended in the step that    *)
(* makes the change, the event is taken in a later step, and what is       *)
(* written only grows.                                                     *)
C40_AckBeforeNotification ==
  [][\A k \in Conns : SentGrows(k) /\ AckWrittenFirst(k) /\ BlockWrittenWhenTaken(k)]_vars

(* One client alone has changed a route: its connection has written the    *)
(* ACK and then the routing block of that change.                          *)
C40_AckThenOwnBlock ==
  \E k \in Conns :
    /\ \A j \in Conns \ {k} : conn[j].phase = "new"
    /\ Len(conn[k].handled) = 1 /\ conn[k].handled[1].msg.kind = "VideoOutputRouting"
    /\ Len(router_tx) = 1 /\ conn[k].rx = 1
    /\ Len(conn[k].sent) >= 2
    /\ conn[k].sent[Len(conn[k].sent) - 1] = Msg("ACK", <<>>)
    /\ conn[k].sent[Len(conn[k].sent)].kind = "VideoOutputRouting"
    /\ conn[k].sent[Len(conn[k].sent)].v = router.routes

====
